---- MODULE Spec2Model ----
(***************************************************************************)
(* State-machine model of DrawingSystem (src/sketchbook/src/drawing.ts,    *)
(* the multi-stroke version, lines 157-522): stroke sessions keyed by      *)
(* input source, the committed stroke list, the redo stack and the render  *)
(* resources (meshes) the strokes own.                                     *)
(*                                                                         *)
(* Lengths are fixed-point integers in units of 0.1 mm (1e-4 m): 0.01 m is *)
(* 100, 0.02 m is 200, 0.021 m is 210.  A THREE.Vector3 is a triple        *)
(* <<x, y, z>>; a wire point is a record [x, y, z].  Distances are         *)
(* compared by their squares.  A THREE.Mesh / Line2 object is a positive   *)
(* integer handle, allocated in creation order; NoMesh is null.  A stroke   *)
(* record carries, besides the fields of Stroke, its origin ("local" for   *)
(* startStroke, "remote" for drawRemoteStroke) as history.                 *)
(***************************************************************************)
EXTENDS Integers, Sequences, FiniteSets

VARIABLES strokes,        \* DrawingSystem.strokes (the committed list)
          undoneStrokes,  \* DrawingSystem.undoneStrokes (the redo stack)
          activeStrokes,  \* DrawingSystem.activeStrokes: sourceId -> session
          brushColor,     \* DrawingSystem.brushColor
          brushSize,      \* DrawingSystem.brushSize
          scene,          \* meshes currently added to the THREE.Scene
          disposed,       \* meshes whose geometry has been disposed
          nextMesh,       \* next fresh mesh handle
          curve,          \* mesh -> the points its geometry's spline was fitted over
          call,           \* the last public method called, its arguments and result
          snapshot,       \* history: the store as undo() found it
          sampled,        \* number of samples updateStroke has filtered so far
          tracked,        \* App: the hands whose joints the XR session reports
          sent,           \* App: the wire data handed to NetworkManager.sendStroke
          buttons,        \* App: userData.disabled of undoButton and clearButton
          event,          \* history: the App handler that ran last
          isEraserMode,   \* App.isEraserMode
          triggers,       \* controller -> is its trigger held, and what its last press did
          touch,          \* history: the frames the fingertip has stayed on the Undo button
          isVisible,      \* UIManager.isVisible
          activeBtn,      \* UIManager.activeBtn, a position in the list of buttons or NoBtn
          isHovering,     \* UIManager.isHovering
          isMuted,        \* DrawingSystem.isMuted
          menuCall,       \* history: the last call of UIManager.checkIntersection
          activeSlotIndex, \* ColorPalette.activeSlotIndex
          lastTapTime,    \* ColorPalette.lastTapTime, in ms
          lastTappedSlot, \* ColorPalette.lastTappedSlot
          now,            \* what Date.now() returns, in ms
          tap,            \* history: the last call of ColorPalette.selectSlot
          listeners,      \* SimpleEventEmitter.listeners: event -> callbacks, in order
          log,            \* history: the calls of on and off so far
          emission,       \* history: the last call of emit
          particles,      \* ParticleSystem.particles
          psCall          \* history: the last call of ParticleSystem.emit or update

vars == <<strokes, undoneStrokes, activeStrokes, brushColor, brushSize,
          scene, disposed, nextMesh, curve, call, snapshot, sampled, tracked,
          sent, buttons, event, isEraserMode, triggers, touch,
          isVisible, activeBtn, isHovering, isMuted, menuCall,
          activeSlotIndex, lastTapTime, lastTappedSlot, now, tap,
          listeners, log, emission, particles, psCall>>

\* what only the handlers of App write
\* the state of the widgets of the user interface
fingerVars == <<touch>>
menuVars == <<isVisible, activeBtn, isHovering, isMuted, menuCall>>
paletteVars == <<activeSlotIndex, lastTapTime, lastTappedSlot, now, tap>>
emitterVars == <<listeners, log, emission>>
particleVars == <<particles, psCall>>
widgetVars == <<fingerVars, menuVars, paletteVars, emitterVars, particleVars>>

appVars == <<sent, buttons, event, isEraserMode, triggers, widgetVars>>

\* what only the listeners of the controllers' triggers write
controllerVars == <<isEraserMode, triggers>>

----------------------------------------------------------------------------
(* Bounds of the exploration *)

MaxMeshes == 4          \* meshes (previews, final tubes, remote tubes) ever created
MaxSamples == 1         \* samples filtered in one run of the whole system
MaxSessionMeshes == 3   \* meshes ever created in a run of the capture path
MaxSessionSamples == 3  \* samples filtered in one run of the capture path

----------------------------------------------------------------------------
(* Program constants *)

NoMesh == 0
DefaultBrushColor == 0
DefaultBrushSize == 30
LerpNum == 4
LerpDen == 10
GateDist == 100
DupDist == 10
MinPoints == 2

SourceIds == {"hand-left", "hand-right"}

\* positions an input source reports: the origin, 2 cm and 2.1 cm along z,
\* and a far point 6 cm along x and 3 cm along y
Origin == <<0, 0, 0>>
FarPoint == <<600, 300, 0>>
Positions == {Origin, <<0, 0, 200>>, <<0, 0, 210>>, FarPoint}

Colors == {DefaultBrushColor, 16711680}
Sizes == {DefaultBrushSize, 50}

----------------------------------------------------------------------------
(* Vector3 helpers *)

Sq(n) == n * n

DistSq(a, b) == Sq(a[1] - b[1]) + Sq(a[2] - b[2]) + Sq(a[3] - b[3])

\* a lerp with alpha = 0.5
LerpCoordHalf(s, p) ==
    IF p >= s THEN s + (p - s) \div 2
              ELSE s - (s - p) \div 2

\* one coordinate of Vector3.lerp: x += (v.x - x) * alpha, alpha = 0.4,
\* quantised to the fixed-point grid (truncation toward zero)
LerpCoord(s, p) ==
    IF p >= s THEN s + ((p - s) * LerpNum) \div LerpDen
              ELSE s - ((s - p) * LerpNum) \div LerpDen

Lerp(s, p) == <<LerpCoord(s[1], p[1]), LerpCoord(s[2], p[2]), LerpCoord(s[3], p[3])>>

\* the distance gate of updateStroke: dist > 0.01
PassesGate(smoothed, lastPoint) == DistSq(smoothed, lastPoint) > Sq(GateDist)

----------------------------------------------------------------------------
(* Wire format *)

\* points.map(p => ({ x: p.x, y: p.y, z: p.z }))
EncodePoint(p) == [x |-> p[1], y |-> p[2], z |-> p[3]]

\* a decoder that swaps y and z
DecodePointSwapped(w) == <<w.x, w.z, w.y>>

\* data.points.map(p => new THREE.Vector3(p.x, p.y, p.z))
DecodePoint(w) == <<w.x, w.y, w.z>>

EncodeStroke(s) ==
    [points |-> [i \in 1..Len(s.points) |-> EncodePoint(s.points[i])],
     color |-> s.color,
     size |-> s.size]

DecodePoints(data) == [i \in 1..Len(data.points) |-> DecodePoint(data.points[i])]

\* strokes a peer may send: a single point, and a valid one of three points
RemoteWires ==
    { [points |-> <<EncodePoint(Origin)>>, color |-> 0, size |-> 30],
      [points |-> <<EncodePoint(<<0, 0, 200>>), EncodePoint(Origin),
                    EncodePoint(FarPoint)>>,
       color |-> 16711680, size |-> 50] }

----------------------------------------------------------------------------
(* Sequence helpers *)

Front(s) == SubSeq(s, 1, Len(s) - 1)

Last(s) == s[Len(s)]

\* a splice that drops the last element whatever the index
RemoveLast(s, i) == SubSeq(s, 1, Len(s) - 1)

\* Array.prototype.splice(index, 1)
RemoveAt(s, i) == SubSeq(s, 1, i - 1) \o SubSeq(s, i + 1, Len(s))

\* Array.prototype.findIndex; 0 stands for -1
FindIndex(s, m) ==
    IF \E i \in 1..Len(s) : s[i].mesh = m
    THEN CHOOSE i \in 1..Len(s) : s[i].mesh = m /\ \A j \in 1..(i - 1) : s[j].mesh # m
    ELSE 0

MeshesOf(s) == {s[i].mesh : i \in 1..Len(s)} \ {NoMesh}

\* the record of a call: op, the source key, the mesh and the wire data passed
\* in, the value returned (<<>> for null or void, <<v>> for a value), the
\* session the call consumed (<<>> for none), and the store, the scene and the
\* disposed resources as the call found them
Call(op, key, mesh, data, ret) ==
    [op |-> op, key |-> key, mesh |-> mesh, data |-> data, ret |-> ret,
     session |-> <<>>,
     pre |-> [strokes |-> strokes, undoneStrokes |-> undoneStrokes,
              scene |-> scene, disposed |-> disposed, curve |-> curve,
              activeStrokes |-> activeStrokes]]

NoSnapshot == <<>>

----------------------------------------------------------------------------
Init ==
    /\ strokes = <<>>
    /\ undoneStrokes = <<>>
    /\ activeStrokes = [k \in {} |-> 0]
    /\ brushColor = DefaultBrushColor
    /\ brushSize = DefaultBrushSize
    /\ scene = {}
    /\ disposed = {}
    /\ nextMesh = 1
    /\ curve = [m \in {} |-> <<>>]
    /\ call = [op |-> "new", key |-> "", mesh |-> NoMesh, data |-> <<>>, ret |-> <<>>,
               session |-> <<>>,
               pre |-> [strokes |-> <<>>, undoneStrokes |-> <<>>, scene |-> {},
                        disposed |-> {}, curve |-> [m \in {} |-> <<>>], activeStrokes |-> [k \in {} |-> 0]]]
    /\ snapshot = NoSnapshot
    /\ sampled = 0
    /\ tracked = SourceIds
    /\ sent = <<>>
    /\ buttons = [undo |-> FALSE, clear |-> FALSE]
    /\ event = [name |-> "new", source |-> "", calls |-> <<>>, sent |-> <<>>]
    /\ isEraserMode = FALSE
    /\ particles = <<>>
    /\ psCall = [op |-> "new", count |-> 0, preLen |-> 0, expired |-> 0,
                 emits |-> 0, updates |-> 0]
    /\ listeners = [e \in {} |-> <<>>]
    /\ log = <<>>
    /\ emission = [event |-> "", calls |-> <<>>, log |-> <<>>,
                   pre |-> [e \in {} |-> <<>>]]
    /\ touch = [onUndo |-> FALSE, frames |-> 0, undone |-> 0]
    /\ isVisible = FALSE
    /\ activeBtn = 0
    /\ isHovering = FALSE
    /\ isMuted = FALSE
    /\ menuCall = [visible |-> FALSE, active |-> 0, hovered |-> 0, fires |-> 0]
    /\ activeSlotIndex = 0
    /\ lastTapTime = 0
    /\ lastTappedSlot = -1
    /\ now = 1000
    /\ tap = [index |-> -1, ret |-> "none", at |-> 0,
              pre |-> [activeSlotIndex |-> 0, lastTapTime |-> 0, lastTappedSlot |-> -1,
                       tappedAt |-> [i \in 0..2 |-> -1]],
              tappedAt |-> [i \in 0..2 |-> -1]]
    /\ triggers = [c \in {"controller-right", "controller-left"} |->
                      [down |-> FALSE, press |-> "none"]]

----------------------------------------------------------------------------
(* Map helpers (activeStrokes is a Map<string, ...>, curve a mesh table) *)

MapSet(f, k, v) == [x \in (DOMAIN f) \cup {k} |-> IF x = k THEN v ELSE f[x]]

MapDelete(f, k) == [x \in (DOMAIN f) \ {k} |-> f[x]]

\* points.filter((p, i) => i === 0 || p.distanceTo(points[i - 1]) > 0.001)
RECURSIVE UniquePointsFrom(_, _)
UniquePointsFrom(points, i) ==
    IF i > Len(points) THEN <<>>
    ELSE IF i = 1 \/ DistSq(points[i], points[i - 1]) > Sq(DupDist)
         THEN <<points[i]>> \o UniquePointsFrom(points, i + 1)
         ELSE UniquePointsFrom(points, i + 1)

UniquePoints(points) == UniquePointsFrom(points, 1)

----------------------------------------------------------------------------
(* startStroke(sourceId, position): color and size default to the brush *)

\* startStroke that seeds the point buffer with the position once
StartStrokeSinglePoint(sourceId, position) ==
    /\ LET line == nextMesh
           stroke == [points |-> <<position>>,
                      color |-> brushColor,
                      size |-> brushSize,
                      mesh |-> line,
                      origin |-> "local"]
       IN /\ activeStrokes' = MapSet(activeStrokes, sourceId,
                                     [stroke |-> stroke,
                                      lastPosition |-> position,
                                      smoothedPosition |-> position,
                                      samples |-> <<>>])
          /\ scene' = scene \cup {line}
          /\ curve' = MapSet(curve, line, <<>>)
          /\ nextMesh' = nextMesh + 1
    /\ call' = Call("startStroke", sourceId, NoMesh, <<>>, <<>>)
    /\ snapshot' = NoSnapshot
    /\ UNCHANGED tracked
    /\ UNCHANGED <<strokes, undoneStrokes, brushColor, brushSize, disposed, sampled>>

StartStroke(sourceId, position) ==
    /\ LET line == nextMesh
           stroke == [points |-> <<position, position>>,
                      color |-> brushColor,
                      size |-> brushSize,
                      mesh |-> line,
                      origin |-> "local"]
       IN /\ activeStrokes' = MapSet(activeStrokes, sourceId,
                                     [stroke |-> stroke,
                                      lastPosition |-> position,
                                      smoothedPosition |-> position,
                                      samples |-> <<>>])
          /\ scene' = scene \cup {line}
          /\ curve' = MapSet(curve, line, <<>>)
          /\ nextMesh' = nextMesh + 1
    /\ call' = Call("startStroke", sourceId, NoMesh, <<>>, <<>>)
    /\ snapshot' = NoSnapshot
    /\ UNCHANGED tracked
    /\ UNCHANGED <<strokes, undoneStrokes, brushColor, brushSize, disposed, sampled>>

(* updateStroke(sourceId, position) *)

\* an update that appends every filtered sample, without the distance gate
UpdatedSessionUngated(state, position) ==
    LET smoothed == Lerp(state.smoothedPosition, position)
    IN [state EXCEPT !.smoothedPosition = smoothed,
                     !.samples = Append(@, position),
                     !.stroke.points = Append(@, smoothed),
                     !.lastPosition = position]

\* an update that gates and appends the raw controller position
UpdatedSessionRaw(state, position) ==
    LET points == state.stroke.points
        smoothed == Lerp(state.smoothedPosition, position)
        filtered == [state EXCEPT !.smoothedPosition = smoothed,
                                  !.samples = Append(@, position)]
    IN IF PassesGate(position, Last(points))
       THEN LET pushed == [filtered EXCEPT !.stroke.points = Append(points, position)]
            IN IF Len(UniquePoints(pushed.stroke.points)) < MinPoints
               THEN pushed
               ELSE [pushed EXCEPT !.lastPosition = position]
       ELSE filtered

\* an update that leaves the low-pass filter where it was when the gate rejects
UpdatedSessionFrozenFilter(state, position) ==
    LET points == state.stroke.points
        smoothed == Lerp(state.smoothedPosition, position)
        filtered == [state EXCEPT !.smoothedPosition = smoothed,
                                  !.samples = Append(@, position)]
    IN IF PassesGate(smoothed, Last(points))
       THEN LET pushed == [filtered EXCEPT !.stroke.points = Append(points, smoothed)]
            IN IF Len(UniquePoints(pushed.stroke.points)) < MinPoints
               THEN pushed
               ELSE [pushed EXCEPT !.lastPosition = position]
       ELSE [state EXCEPT !.samples = Append(@, position)]

\* the session after one sample: low-pass filter, distance gate, append
UpdatedSession(state, position) ==
    LET points == state.stroke.points
        smoothed == Lerp(state.smoothedPosition, position)
        filtered == [state EXCEPT !.smoothedPosition = smoothed,
                                  !.samples = Append(@, position)]
    IN IF PassesGate(smoothed, Last(points))
       THEN LET pushed == [filtered EXCEPT !.stroke.points = Append(points, smoothed)]
            IN IF Len(UniquePoints(pushed.stroke.points)) < MinPoints
               THEN pushed
               ELSE [pushed EXCEPT !.lastPosition = position]
       ELSE filtered

\* updateStroke whose low-pass filter state is shared by all the sessions
UpdateStrokeSharedFilter(sourceId, position) ==
    /\ IF sourceId \in DOMAIN activeStrokes /\ activeStrokes[sourceId].stroke.mesh # NoMesh
       THEN LET state == activeStrokes[sourceId]
                next == UpdatedSession(state, position)
                unique == UniquePoints(next.stroke.points)
            IN /\ sampled' = sampled + 1
               /\ activeStrokes' =
                     [k \in DOMAIN activeStrokes |->
                         IF k = sourceId THEN next
                         ELSE [activeStrokes[k] EXCEPT
                                  !.smoothedPosition = next.smoothedPosition]]
               /\ curve' = IF /\ Len(next.stroke.points) > Len(state.stroke.points)
                              /\ Len(unique) >= MinPoints
                           THEN MapSet(curve, state.stroke.mesh, unique)
                           ELSE curve
       ELSE UNCHANGED <<activeStrokes, curve, sampled>>
    /\ call' = Call("updateStroke", sourceId, NoMesh, <<>>, <<>>)
    /\ snapshot' = NoSnapshot
    /\ UNCHANGED tracked
    /\ UNCHANGED <<strokes, undoneStrokes, brushColor, brushSize, scene, disposed, nextMesh>>

\* updateStroke that opens a session for a key that has none
UpdateStrokeOpensSession(sourceId, position) ==
    /\ IF sourceId \in DOMAIN activeStrokes /\ activeStrokes[sourceId].stroke.mesh # NoMesh
       THEN LET state == activeStrokes[sourceId]
                next == UpdatedSession(state, position)
                unique == UniquePoints(next.stroke.points)
            IN /\ sampled' = sampled + 1
               /\ activeStrokes' = MapSet(activeStrokes, sourceId, next)
               /\ curve' = IF /\ Len(next.stroke.points) > Len(state.stroke.points)
                              /\ Len(unique) >= MinPoints
                           THEN MapSet(curve, state.stroke.mesh, unique)
                           ELSE curve
       ELSE /\ activeStrokes' = MapSet(activeStrokes, sourceId,
                                       [stroke |-> [points |-> <<position, position>>,
                                                    color |-> brushColor,
                                                    size |-> brushSize,
                                                    mesh |-> NoMesh,
                                                    origin |-> "local"],
                                        lastPosition |-> position,
                                        smoothedPosition |-> position,
                                        samples |-> <<>>])
            /\ UNCHANGED <<curve, sampled>>
    /\ call' = Call("updateStroke", sourceId, NoMesh, <<>>, <<>>)
    /\ snapshot' = NoSnapshot
    /\ UNCHANGED tracked
    /\ UNCHANGED <<strokes, undoneStrokes, brushColor, brushSize, scene, disposed, nextMesh>>

UpdateStroke(sourceId, position) ==
    /\ IF sourceId \in DOMAIN activeStrokes /\ activeStrokes[sourceId].stroke.mesh # NoMesh
       THEN LET state == activeStrokes[sourceId]
                next == UpdatedSession(state, position)
                unique == UniquePoints(next.stroke.points)
            IN /\ sampled' = sampled + 1
               /\ activeStrokes' = MapSet(activeStrokes, sourceId, next)
               /\ curve' = IF /\ Len(next.stroke.points) > Len(state.stroke.points)
                              /\ Len(unique) >= MinPoints
                           THEN MapSet(curve, state.stroke.mesh, unique)
                           ELSE curve
       ELSE UNCHANGED <<activeStrokes, curve, sampled>>
    /\ call' = Call("updateStroke", sourceId, NoMesh, <<>>, <<>>)
    /\ snapshot' = NoSnapshot
    /\ UNCHANGED tracked
    /\ UNCHANGED <<strokes, undoneStrokes, brushColor, brushSize, scene, disposed, nextMesh>>

(* endStroke(sourceId) *)

\* updateStrokeMesh(stroke): the final tube, skipped under 2 points
NeedsFinalMesh(stroke) == Len(stroke.points) >= MinPoints

\* endStroke that forgets to reset undoneStrokes
EndStrokeKeepsRedo(sourceId) ==
    /\ IF sourceId \in DOMAIN activeStrokes
       THEN LET state == activeStrokes[sourceId]
                line == state.stroke.mesh
                final == nextMesh
                stroke == IF NeedsFinalMesh(state.stroke)
                          THEN [state.stroke EXCEPT !.mesh = final]
                          ELSE state.stroke
            IN /\ scene' = IF NeedsFinalMesh(state.stroke)
                           THEN (scene \ {line}) \cup {final}
                           ELSE scene \ {line}
               /\ disposed' = IF line # NoMesh THEN disposed \cup {line} ELSE disposed
               /\ curve' = IF NeedsFinalMesh(state.stroke)
                           THEN MapSet(curve, final, state.stroke.points)
                           ELSE curve
               /\ nextMesh' = IF NeedsFinalMesh(state.stroke) THEN nextMesh + 1 ELSE nextMesh
               /\ strokes' = Append(strokes, stroke)
               /\ undoneStrokes' = undoneStrokes
               /\ activeStrokes' = MapDelete(activeStrokes, sourceId)
               /\ call' = [Call("endStroke", sourceId, NoMesh, <<>>, <<EncodeStroke(stroke)>>)
                             EXCEPT !.session = <<state>>]
       ELSE /\ call' = Call("endStroke", sourceId, NoMesh, <<>>, <<>>)
            /\ UNCHANGED <<strokes, undoneStrokes, activeStrokes, scene, disposed,
                           nextMesh, curve>>
    /\ snapshot' = NoSnapshot
    /\ UNCHANGED tracked
    /\ UNCHANGED <<brushColor, brushSize, sampled>>

\* endStroke that leaves the session in activeStrokes
EndStrokeKeepsSession(sourceId) ==
    /\ IF sourceId \in DOMAIN activeStrokes
       THEN LET state == activeStrokes[sourceId]
                line == state.stroke.mesh
                final == nextMesh
                stroke == IF NeedsFinalMesh(state.stroke)
                          THEN [state.stroke EXCEPT !.mesh = final]
                          ELSE state.stroke
            IN /\ scene' = IF NeedsFinalMesh(state.stroke)
                           THEN (scene \ {line}) \cup {final}
                           ELSE scene \ {line}
               /\ disposed' = IF line # NoMesh THEN disposed \cup {line} ELSE disposed
               /\ curve' = IF NeedsFinalMesh(state.stroke)
                           THEN MapSet(curve, final, state.stroke.points)
                           ELSE curve
               /\ nextMesh' = IF NeedsFinalMesh(state.stroke) THEN nextMesh + 1 ELSE nextMesh
               /\ strokes' = Append(strokes, stroke)
               /\ undoneStrokes' = <<>>
               /\ activeStrokes' = activeStrokes
               /\ call' = [Call("endStroke", sourceId, NoMesh, <<>>, <<EncodeStroke(stroke)>>)
                             EXCEPT !.session = <<state>>]
       ELSE /\ call' = Call("endStroke", sourceId, NoMesh, <<>>, <<>>)
            /\ UNCHANGED <<strokes, undoneStrokes, activeStrokes, scene, disposed,
                           nextMesh, curve>>
    /\ snapshot' = NoSnapshot
    /\ UNCHANGED tracked
    /\ UNCHANGED <<brushColor, brushSize, sampled>>

\* endStroke that puts the stroke at the head of the committed list
EndStrokeAtHead(sourceId) ==
    /\ IF sourceId \in DOMAIN activeStrokes
       THEN LET state == activeStrokes[sourceId]
                line == state.stroke.mesh
                final == nextMesh
                stroke == IF NeedsFinalMesh(state.stroke)
                          THEN [state.stroke EXCEPT !.mesh = final]
                          ELSE state.stroke
            IN /\ scene' = IF NeedsFinalMesh(state.stroke)
                           THEN (scene \ {line}) \cup {final}
                           ELSE scene \ {line}
               /\ disposed' = IF line # NoMesh THEN disposed \cup {line} ELSE disposed
               /\ curve' = IF NeedsFinalMesh(state.stroke)
                           THEN MapSet(curve, final, state.stroke.points)
                           ELSE curve
               /\ nextMesh' = IF NeedsFinalMesh(state.stroke) THEN nextMesh + 1 ELSE nextMesh
               /\ strokes' = <<stroke>> \o strokes
               /\ undoneStrokes' = <<>>
               /\ activeStrokes' = MapDelete(activeStrokes, sourceId)
               /\ call' = [Call("endStroke", sourceId, NoMesh, <<>>, <<EncodeStroke(stroke)>>)
                             EXCEPT !.session = <<state>>]
       ELSE /\ call' = Call("endStroke", sourceId, NoMesh, <<>>, <<>>)
            /\ UNCHANGED <<strokes, undoneStrokes, activeStrokes, scene, disposed,
                           nextMesh, curve>>
    /\ snapshot' = NoSnapshot
    /\ UNCHANGED tracked
    /\ UNCHANGED <<brushColor, brushSize, sampled>>

EndStroke(sourceId) ==
    /\ IF sourceId \in DOMAIN activeStrokes
       THEN LET state == activeStrokes[sourceId]
                line == state.stroke.mesh
                final == nextMesh
                stroke == IF NeedsFinalMesh(state.stroke)
                          THEN [state.stroke EXCEPT !.mesh = final]
                          ELSE state.stroke
            IN /\ scene' = IF NeedsFinalMesh(state.stroke)
                           THEN (scene \ {line}) \cup {final}
                           ELSE scene \ {line}
               /\ disposed' = IF line # NoMesh THEN disposed \cup {line} ELSE disposed
               /\ curve' = IF NeedsFinalMesh(state.stroke)
                           THEN MapSet(curve, final, state.stroke.points)
                           ELSE curve
               /\ nextMesh' = IF NeedsFinalMesh(state.stroke) THEN nextMesh + 1 ELSE nextMesh
               /\ strokes' = Append(strokes, stroke)
               /\ undoneStrokes' = <<>>
               /\ activeStrokes' = MapDelete(activeStrokes, sourceId)
               /\ call' = [Call("endStroke", sourceId, NoMesh, <<>>, <<EncodeStroke(stroke)>>)
                             EXCEPT !.session = <<state>>]
       ELSE /\ call' = Call("endStroke", sourceId, NoMesh, <<>>, <<>>)
            /\ UNCHANGED <<strokes, undoneStrokes, activeStrokes, scene, disposed,
                           nextMesh, curve>>
    /\ snapshot' = NoSnapshot
    /\ UNCHANGED tracked
    /\ UNCHANGED <<brushColor, brushSize, sampled>>

(* drawRemoteStroke(data) *)

\* drawRemoteStroke without the check of the point count
DrawRemoteStrokeUnchecked(data) ==
    /\ LET points == DecodePoints(data)
           mesh == nextMesh
       IN /\ scene' = scene \cup {mesh}
          /\ curve' = MapSet(curve, mesh, points)
          /\ nextMesh' = nextMesh + 1
          /\ strokes' = Append(strokes, [points |-> points,
                                         color |-> data.color,
                                         size |-> data.size,
                                         mesh |-> mesh,
                                         origin |-> "remote"])
    /\ call' = Call("drawRemoteStroke", "", NoMesh, <<data>>, <<>>)
    /\ snapshot' = NoSnapshot
    /\ UNCHANGED tracked
    /\ UNCHANGED <<undoneStrokes, activeStrokes, brushColor, brushSize, disposed, sampled>>

\* drawRemoteStroke that ignores a stroke equal to one already committed
DrawRemoteStrokeDedup(data) ==
    /\ LET points == DecodePoints(data)
           mesh == nextMesh
       IN IF \/ Len(points) < MinPoints
             \/ \E i \in 1..Len(strokes) : /\ strokes[i].points = points
                                           /\ strokes[i].color = data.color
                                           /\ strokes[i].size = data.size
          THEN UNCHANGED <<strokes, scene, nextMesh, curve>>
          ELSE /\ scene' = scene \cup {mesh}
               /\ curve' = MapSet(curve, mesh, points)
               /\ nextMesh' = nextMesh + 1
               /\ strokes' = Append(strokes, [points |-> points,
                                              color |-> data.color,
                                              size |-> data.size,
                                              mesh |-> mesh,
                                              origin |-> "remote"])
    /\ call' = Call("drawRemoteStroke", "", NoMesh, <<data>>, <<>>)
    /\ snapshot' = NoSnapshot
    /\ UNCHANGED tracked
    /\ UNCHANGED <<undoneStrokes, activeStrokes, brushColor, brushSize, disposed, sampled>>

DrawRemoteStroke(data) ==
    /\ LET points == DecodePoints(data)
           mesh == nextMesh
       IN IF Len(points) < MinPoints
          THEN UNCHANGED <<strokes, scene, nextMesh, curve>>
          ELSE /\ scene' = scene \cup {mesh}
               /\ curve' = MapSet(curve, mesh, points)
               /\ nextMesh' = nextMesh + 1
               /\ strokes' = Append(strokes, [points |-> points,
                                              color |-> data.color,
                                              size |-> data.size,
                                              mesh |-> mesh,
                                              origin |-> "remote"])
    /\ call' = Call("drawRemoteStroke", "", NoMesh, <<data>>, <<>>)
    /\ snapshot' = NoSnapshot
    /\ UNCHANGED tracked
    /\ UNCHANGED <<undoneStrokes, activeStrokes, brushColor, brushSize, disposed, sampled>>

(* setColor(color), setSize(size) *)

\* setColor that recolors the strokes being drawn
SetColorRecolors(color) ==
    /\ brushColor' = color
    /\ activeStrokes' = [k \in DOMAIN activeStrokes |->
                            [activeStrokes[k] EXCEPT !.stroke.color = color]]
    /\ call' = Call("setColor", "", NoMesh, <<>>, <<>>)
    /\ snapshot' = NoSnapshot
    /\ UNCHANGED tracked
    /\ UNCHANGED <<strokes, undoneStrokes, brushSize, scene, disposed,
                   nextMesh, curve, sampled>>

SetColor(color) ==
    /\ brushColor' = color
    /\ call' = Call("setColor", "", NoMesh, <<>>, <<>>)
    /\ snapshot' = NoSnapshot
    /\ UNCHANGED tracked
    /\ UNCHANGED <<strokes, undoneStrokes, activeStrokes, brushSize, scene, disposed,
                   nextMesh, curve, sampled>>

SetSize(size) ==
    /\ brushSize' = size
    /\ call' = Call("setSize", "", NoMesh, <<>>, <<>>)
    /\ snapshot' = NoSnapshot
    /\ UNCHANGED tracked
    /\ UNCHANGED <<strokes, undoneStrokes, activeStrokes, brushColor, scene, disposed,
                   nextMesh, curve, sampled>>

(* undo(), redo() *)

\* undo() that disposes the geometry of the stroke it takes out
UndoDisposes ==
    /\ IF Len(strokes) > 0
       THEN LET stroke == Last(strokes)
            IN /\ strokes' = Front(strokes)
               /\ IF stroke.mesh # NoMesh
                  THEN /\ scene' = scene \ {stroke.mesh}
                       /\ disposed' = disposed \cup {stroke.mesh}
                       /\ undoneStrokes' = Append(undoneStrokes, stroke)
                  ELSE UNCHANGED <<scene, disposed, undoneStrokes>>
       ELSE UNCHANGED <<strokes, undoneStrokes, scene, disposed>>
    /\ call' = Call("undo", "", NoMesh, <<>>, <<>>)
    /\ snapshot' = <<[strokes |-> strokes, undoneStrokes |-> undoneStrokes]>>
    /\ UNCHANGED tracked
    /\ UNCHANGED <<activeStrokes, brushColor, brushSize, nextMesh, curve, sampled>>

Undo ==
    /\ IF Len(strokes) > 0
       THEN LET stroke == Last(strokes)
            IN /\ strokes' = Front(strokes)
               /\ IF stroke.mesh # NoMesh
                  THEN /\ scene' = scene \ {stroke.mesh}
                       /\ undoneStrokes' = Append(undoneStrokes, stroke)
                  ELSE UNCHANGED <<scene, undoneStrokes>>
       ELSE UNCHANGED <<strokes, undoneStrokes, scene>>
    /\ call' = Call("undo", "", NoMesh, <<>>, <<>>)
    /\ snapshot' = <<[strokes |-> strokes, undoneStrokes |-> undoneStrokes]>>
    /\ UNCHANGED tracked
    /\ UNCHANGED <<activeStrokes, brushColor, brushSize, disposed, nextMesh, curve, sampled>>

\* redo() that takes the oldest entry of undoneStrokes
RedoOldest ==
    /\ IF Len(undoneStrokes) > 0
       THEN LET stroke == Head(undoneStrokes)
            IN /\ undoneStrokes' = Tail(undoneStrokes)
               /\ IF stroke.mesh # NoMesh
                  THEN /\ scene' = scene \cup {stroke.mesh}
                       /\ strokes' = Append(strokes, stroke)
                  ELSE UNCHANGED <<scene, strokes>>
       ELSE UNCHANGED <<strokes, undoneStrokes, scene>>
    /\ call' = Call("redo", "", NoMesh, <<>>, <<>>)
    /\ snapshot' = IF call.op = "undo" THEN snapshot ELSE NoSnapshot
    /\ UNCHANGED tracked
    /\ UNCHANGED <<activeStrokes, brushColor, brushSize, disposed, nextMesh, curve, sampled>>

\* redo() that puts the stroke back at the head of the committed list
RedoAtHead ==
    /\ IF Len(undoneStrokes) > 0
       THEN LET stroke == Last(undoneStrokes)
            IN /\ undoneStrokes' = Front(undoneStrokes)
               /\ IF stroke.mesh # NoMesh
                  THEN /\ scene' = scene \cup {stroke.mesh}
                       /\ strokes' = <<stroke>> \o strokes
                  ELSE UNCHANGED <<scene, strokes>>
       ELSE UNCHANGED <<strokes, undoneStrokes, scene>>
    /\ call' = Call("redo", "", NoMesh, <<>>, <<>>)
    /\ snapshot' = IF call.op = "undo" THEN snapshot ELSE NoSnapshot
    /\ UNCHANGED tracked
    /\ UNCHANGED <<activeStrokes, brushColor, brushSize, disposed, nextMesh, curve, sampled>>

\* redo() that leaves the restored stroke on undoneStrokes as well
RedoKeepsEntry ==
    /\ IF Len(undoneStrokes) > 0
       THEN LET stroke == Last(undoneStrokes)
            IN /\ undoneStrokes' = undoneStrokes
               /\ IF stroke.mesh # NoMesh
                  THEN /\ scene' = scene \cup {stroke.mesh}
                       /\ strokes' = Append(strokes, stroke)
                  ELSE UNCHANGED <<scene, strokes>>
       ELSE UNCHANGED <<strokes, undoneStrokes, scene>>
    /\ call' = Call("redo", "", NoMesh, <<>>, <<>>)
    /\ snapshot' = IF call.op = "undo" THEN snapshot ELSE NoSnapshot
    /\ UNCHANGED tracked
    /\ UNCHANGED <<activeStrokes, brushColor, brushSize, disposed, nextMesh, curve, sampled>>

Redo ==
    /\ IF Len(undoneStrokes) > 0
       THEN LET stroke == Last(undoneStrokes)
            IN /\ undoneStrokes' = Front(undoneStrokes)
               /\ IF stroke.mesh # NoMesh
                  THEN /\ scene' = scene \cup {stroke.mesh}
                       /\ strokes' = Append(strokes, stroke)
                  ELSE UNCHANGED <<scene, strokes>>
       ELSE UNCHANGED <<strokes, undoneStrokes, scene>>
    /\ call' = Call("redo", "", NoMesh, <<>>, <<>>)
    /\ snapshot' = IF call.op = "undo" THEN snapshot ELSE NoSnapshot
    /\ UNCHANGED tracked
    /\ UNCHANGED <<activeStrokes, brushColor, brushSize, disposed, nextMesh, curve, sampled>>

(* deleteStroke(mesh) *)

\* deleteStroke that disposes the stroke but leaves it in the committed list
DeleteStrokeKeepsEntry(mesh) ==
    /\ LET index == FindIndex(strokes, mesh)
       IN IF index # 0
          THEN LET stroke == strokes[index]
               IN /\ scene' = IF stroke.mesh # NoMesh THEN scene \ {stroke.mesh} ELSE scene
                  /\ disposed' = IF stroke.mesh # NoMesh
                                 THEN disposed \cup {stroke.mesh} ELSE disposed
                  /\ strokes' = strokes
                  /\ undoneStrokes' = <<>>
          ELSE UNCHANGED <<strokes, undoneStrokes, scene, disposed>>
    /\ call' = Call("deleteStroke", "", mesh, <<>>, <<>>)
    /\ snapshot' = NoSnapshot
    /\ UNCHANGED tracked
    /\ UNCHANGED <<activeStrokes, brushColor, brushSize, nextMesh, curve, sampled>>

\* deleteStroke that resets undoneStrokes whether or not it found the mesh
DeleteStrokeAlwaysClears(mesh) ==
    /\ LET index == FindIndex(strokes, mesh)
       IN IF index # 0
          THEN LET stroke == strokes[index]
               IN /\ scene' = IF stroke.mesh # NoMesh THEN scene \ {stroke.mesh} ELSE scene
                  /\ disposed' = IF stroke.mesh # NoMesh
                                 THEN disposed \cup {stroke.mesh} ELSE disposed
                  /\ strokes' = RemoveAt(strokes, index)
                  /\ undoneStrokes' = <<>>
          ELSE /\ undoneStrokes' = <<>>
               /\ UNCHANGED <<strokes, scene, disposed>>
    /\ call' = Call("deleteStroke", "", mesh, <<>>, <<>>)
    /\ snapshot' = NoSnapshot
    /\ UNCHANGED tracked
    /\ UNCHANGED <<activeStrokes, brushColor, brushSize, nextMesh, curve, sampled>>

DeleteStroke(mesh) ==
    /\ LET index == FindIndex(strokes, mesh)
       IN IF index # 0
          THEN LET stroke == strokes[index]
               IN /\ scene' = IF stroke.mesh # NoMesh THEN scene \ {stroke.mesh} ELSE scene
                  /\ disposed' = IF stroke.mesh # NoMesh
                                 THEN disposed \cup {stroke.mesh} ELSE disposed
                  /\ strokes' = RemoveAt(strokes, index)
                  /\ undoneStrokes' = <<>>
          ELSE UNCHANGED <<strokes, undoneStrokes, scene, disposed>>
    /\ call' = Call("deleteStroke", "", mesh, <<>>, <<>>)
    /\ snapshot' = NoSnapshot
    /\ UNCHANGED tracked
    /\ UNCHANGED <<activeStrokes, brushColor, brushSize, nextMesh, curve, sampled>>

(* clear() *)

\* clear() that leaves undoneStrokes alone
ClearKeepsRedo ==
    /\ scene' = scene \ MeshesOf(strokes)
    /\ disposed' = disposed \cup MeshesOf(strokes)
    /\ strokes' = <<>>
    /\ undoneStrokes' = undoneStrokes
    /\ call' = Call("clear", "", NoMesh, <<>>, <<>>)
    /\ snapshot' = NoSnapshot
    /\ UNCHANGED tracked
    /\ UNCHANGED <<activeStrokes, brushColor, brushSize, nextMesh, curve, sampled>>

\* clear() that also takes the preview lines of the sessions out of the scene
ClearRemovesPreviews ==
    /\ scene' = scene \ (MeshesOf(strokes)
                           \cup {activeStrokes[k].stroke.mesh : k \in DOMAIN activeStrokes})
    /\ disposed' = disposed \cup MeshesOf(strokes)
    /\ strokes' = <<>>
    /\ undoneStrokes' = <<>>
    /\ call' = Call("clear", "", NoMesh, <<>>, <<>>)
    /\ snapshot' = NoSnapshot
    /\ UNCHANGED tracked
    /\ UNCHANGED <<activeStrokes, brushColor, brushSize, nextMesh, curve, sampled>>

Clear ==
    /\ scene' = scene \ MeshesOf(strokes)
    /\ disposed' = disposed \cup MeshesOf(strokes)
    /\ strokes' = <<>>
    /\ undoneStrokes' = <<>>
    /\ call' = Call("clear", "", NoMesh, <<>>, <<>>)
    /\ snapshot' = NoSnapshot
    /\ UNCHANGED tracked
    /\ UNCHANGED <<activeStrokes, brushColor, brushSize, nextMesh, curve, sampled>>

----------------------------------------------------------------------------
(* The whole system, driven with coarse input: every stroke starts at the  *)
(* origin and every sample is the far point.                               *)

\* the data endStroke has just returned, if any
Returned == {call.ret[i] : i \in 1..Len(call.ret)}

\* the wire data the transport may hand to drawRemoteStroke: a peer's stroke,
\* or an echo of the data endStroke has just returned
Deliverable == RemoteWires \cup Returned

Next ==
    \/ \E k \in SourceIds :
          nextMesh <= MaxMeshes /\ StartStroke(k, Origin) /\ UNCHANGED appVars
    \/ \E k \in SourceIds :
          sampled < MaxSamples /\ UpdateStroke(k, FarPoint) /\ UNCHANGED appVars
    \/ \E k \in SourceIds :
          nextMesh <= MaxMeshes /\ EndStroke(k) /\ UNCHANGED appVars
    \/ \E d \in Deliverable :
          nextMesh <= MaxMeshes /\ DrawRemoteStroke(d) /\ UNCHANGED appVars
    \/ Undo /\ UNCHANGED appVars
    \/ Redo /\ UNCHANGED appVars
    \/ \E m \in 1..(nextMesh - 1) : DeleteStroke(m) /\ UNCHANGED appVars
    \/ Clear /\ UNCHANGED appVars

Spec == Init /\ [][Next]_vars

----------------------------------------------------------------------------
(* The capture path: sessions fed with every position, brush changes, the  *)
(* commit, and the returned wire data fed back to drawRemoteStroke.        *)

SessionKeys == {"hand-right"}
StartPositions == {Origin}

SessionNext ==
    \/ \E k \in SessionKeys, p \in StartPositions :
          nextMesh <= MaxSessionMeshes /\ StartStroke(k, p) /\ UNCHANGED appVars
    \/ \E k \in SessionKeys, p \in Positions :
          sampled < MaxSessionSamples /\ UpdateStroke(k, p) /\ UNCHANGED appVars
    \/ \E k \in SessionKeys :
          nextMesh <= MaxSessionMeshes /\ EndStroke(k) /\ UNCHANGED appVars
    \/ \E d \in Returned :
          nextMesh <= MaxSessionMeshes /\ DrawRemoteStroke(d) /\ UNCHANGED appVars
    \/ \E c \in Colors : SetColor(c) /\ UNCHANGED appVars
    \/ \E s \in Sizes : SetSize(s) /\ UNCHANGED appVars

SessionSpec == Init /\ [][SessionNext]_vars

----------------------------------------------------------------------------
(* App (main.ts): the two hands drive the sessions.  selectstart and        *)
(* selectend reach the handlers of a hand the XR session reports; the      *)
(* render loop feeds the index-finger tip of every reported hand that is   *)
(* pinching to updateStroke.  hand.userData.isPinching is set by            *)
(* onSelectStart and reset by onSelectEnd, the same handlers that create   *)
(* and delete the hand's session, so a hand is pinching exactly when its   *)
(* key is in activeStrokes.  A touch of the palette sets the brush color.  *)

MaxAppMeshes == 4    \* meshes ever created in a run of the App
MaxAppSamples == 2   \* samples the render loop has fed to updateStroke

\* where the finger tips are reported
TipPositions == {<<0, 0, 200>>, FarPoint}

isPinching(hand) == hand \in DOMAIN activeStrokes

\* canUndo(): called by updateButtonStates; true while there is a committed
\* stroke
canUndo == Len(strokes) > 0

\* the handler that ran, the source it ran for, the DrawingSystem methods it
\* called, and the log of sends as it found it
Event(name, source, calls) ==
    [name |-> name, source |-> source, calls |-> calls, sent |-> sent]

\* sendStroke that hands the data to broadcast twice
sendStrokeTwice(data) == sent' = Append(Append(sent, data), data)

\* NetworkManager.sendStroke(data): one broadcast('stroke', data)
sendStroke(data) == sent' = Append(sent, data)

\* updateButtonStates that refreshes the Undo button only
updateButtonStatesUndoOnly ==
    buttons' = [undo |-> ~canUndo', clear |-> buttons.clear]

\* updateButtonStates(): both buttons are disabled when canUndo() is false
updateButtonStates ==
    buttons' = [undo |-> ~canUndo', clear |-> ~canUndo']

onSelectStart(hand, cursor) ==
    /\ hand \in tracked
    /\ StartStroke(hand, cursor)
    /\ event' = Event("selectstart", hand, <<"startStroke">>)
    /\ UNCHANGED <<sent, buttons>>
    /\ UNCHANGED <<controllerVars, widgetVars>>

onSelectEnd(hand) ==
    /\ hand \in tracked
    /\ EndStroke(hand)
    /\ IF call'.ret # <<>> THEN sendStroke(call'.ret[1]) ELSE UNCHANGED sent
    /\ event' = Event("selectend", hand, <<"endStroke">>)
    /\ UNCHANGED buttons
    /\ UNCHANGED <<controllerVars, widgetVars>>

\* a frame in which the hand is pinching: the code calls updateStroke only
\* when the hand has joints and is pinching, and refreshes the buttons at
\* the end of the frame
render(hand, indexTipPos) ==
    /\ hand \in tracked
    /\ isPinching(hand)
    /\ UpdateStroke(hand, indexTipPos)
    /\ updateButtonStates
    /\ event' = Event("render", hand, <<"updateStroke">>)
    /\ UNCHANGED sent
    /\ UNCHANGED <<controllerVars, widgetVars>>

\* a frame in which the right index finger touches a sphere of the palette
renderPaletteTouch(color) ==
    /\ SetColor(color)
    /\ updateButtonStates
    /\ event' = Event("render", "", <<"setColor">>)
    /\ UNCHANGED sent
    /\ UNCHANGED <<controllerVars, widgetVars>>

\* a frame in which no reported hand is pinching and no visible controller
\* is drawing: nothing of the DrawingSystem is called
renderIdle ==
    /\ \A h \in tracked : ~isPinching(h)
    /\ UNCHANGED <<strokes, undoneStrokes, activeStrokes, brushColor, brushSize,
                   scene, disposed, nextMesh, curve, call, snapshot, sampled,
                   tracked, sent>>
    /\ updateButtonStates
    /\ event' = Event("render", "", <<>>)
    /\ UNCHANGED <<controllerVars, widgetVars>>

\* the XR session stops reporting the hand (hand.joints is gone): App has
\* no handler for it, and no state of App or DrawingSystem changes
TrackingLost(hand) ==
    /\ hand \in tracked
    /\ tracked' = tracked \ {hand}
    /\ UNCHANGED <<strokes, undoneStrokes, activeStrokes, brushColor, brushSize,
                   scene, disposed, nextMesh, curve, call, snapshot, sampled>>
    /\ UNCHANGED appVars

RenderLoop ==
    \E h \in SourceIds, p \in TipPositions : sampled < MaxAppSamples /\ render(h, p)

AppNext ==
    \/ \E h \in SourceIds : nextMesh <= MaxAppMeshes /\ onSelectStart(h, Origin)
    \/ RenderLoop
    \/ \E h \in SourceIds : nextMesh <= MaxAppMeshes /\ onSelectEnd(h)
    \/ \E h \in SourceIds : TrackingLost(h)
    \/ \E c \in Colors : renderPaletteTouch(c)

\* renderer.setAnimationLoop keeps the render loop running
AppSpec == Init /\ [][AppNext]_vars /\ WF_vars(RenderLoop)

----------------------------------------------------------------------------
(* App (main.ts): the two controllers.  The trigger of a controller either *)
(* presses the button its ray hits or starts a stroke; releasing it ends   *)
(* the stroke the controller is drawing; the grip of the right controller  *)
(* redoes, the grip of the left one undoes.  controller.userData.isDrawing *)
(* is set where the controller's session is created and reset where it is  *)
(* deleted, so a controller is drawing exactly when its key is in          *)
(* activeStrokes.                                                          *)

MaxUiMeshes == 4     \* meshes ever created in a run with the controllers
MaxUiSamples == 1    \* samples the render loop has fed to updateStroke

ControllerIds == {"controller-right", "controller-left"}

\* the hand that draws next to the controllers
UiHands == {"hand-right"}

\* what the ray of a controller hits when its trigger is pressed
Targets == {"undoButton", "clearButton", "none"}

isDrawing(controller) == controller \in DOMAIN activeStrokes

\* everything a handler leaves alone when it calls no method of the
\* DrawingSystem
drawingVars == <<strokes, undoneStrokes, activeStrokes, brushColor, brushSize,
                 scene, disposed, nextMesh, curve, call, snapshot, sampled, tracked>>

\* the color of the shade or palette sphere the ray hits
SphereColor == 16711680

\* the ray is tested against the shade picker, the Undo button, the Clear
\* button and the palette, in this order; if it hits none of them the press
\* erases in eraser mode and starts a stroke otherwise
onControllerSelectStart(controller, target, position) ==
    /\ CASE target = "shadeSphere" ->
              /\ SetColor(SphereColor)
              /\ event' = Event("selectstart", controller, <<"setColor">>)
         [] target = "undoButton" ->
              /\ Undo
              /\ event' = Event("selectstart", controller, <<"undo">>)
         [] target = "clearButton" ->
              /\ Clear
              /\ event' = Event("selectstart", controller, <<"clear">>)
         [] target = "paletteSingle" ->
              /\ SetColor(SphereColor)
              /\ event' = Event("selectstart", controller, <<"setColor">>)
         [] target = "paletteDouble" ->
              /\ UNCHANGED drawingVars
              /\ event' = Event("selectstart", controller, <<>>)
         [] OTHER ->
              IF isEraserMode
              THEN \/ \E m \in MeshesOf(strokes) :
                        /\ DeleteStroke(m)
                        /\ event' = Event("selectstart", controller, <<"deleteStroke">>)
                   \/ /\ UNCHANGED drawingVars
                      /\ event' = Event("selectstart", controller, <<>>)
              ELSE /\ StartStroke(controller, position)
                   /\ event' = Event("selectstart", controller, <<"startStroke">>)
    /\ UNCHANGED <<sent, buttons>>

\* the second selectstart listener of the right controller: the A button
\* held at the press toggles the eraser mode
toggleEraserMode(controller, aPressed) ==
    isEraserMode' = IF controller = "controller-right" /\ aPressed
                    THEN ~isEraserMode
                    ELSE isEraserMode

\* onControllerSelectEnd without the test of userData.isDrawing
onControllerSelectEndAlways(controller) ==
    /\ EndStroke(controller)
    /\ IF call'.ret # <<>> THEN sendStroke(call'.ret[1]) ELSE UNCHANGED sent
    /\ event' = Event("selectend", controller, <<"endStroke">>)
    /\ UNCHANGED buttons

onControllerSelectEnd(controller) ==
    /\ IF isDrawing(controller)
       THEN /\ EndStroke(controller)
            /\ IF call'.ret # <<>> THEN sendStroke(call'.ret[1]) ELSE UNCHANGED sent
            /\ event' = Event("selectend", controller, <<"endStroke">>)
       ELSE /\ UNCHANGED <<strokes, undoneStrokes, activeStrokes, brushColor,
                           brushSize, scene, disposed, nextMesh, curve, call,
                           snapshot, sampled, tracked, sent>>
            /\ event' = Event("selectend", controller, <<>>)
    /\ UNCHANGED buttons

onSqueezeStart(controller) ==
    /\ IF controller = "controller-right"
       THEN Redo /\ event' = Event("squeezestart", controller, <<"redo">>)
       ELSE Undo /\ event' = Event("squeezestart", controller, <<"undo">>)
    /\ UNCHANGED <<sent, buttons>>
    /\ UNCHANGED <<controllerVars, widgetVars>>

\* a frame in which a visible controller is drawing
renderController(controller, position) ==
    /\ isDrawing(controller)
    /\ UpdateStroke(controller, position)
    /\ updateButtonStates
    /\ event' = Event("render", controller, <<"updateStroke">>)
    /\ UNCHANGED sent
    /\ UNCHANGED <<controllerVars, widgetVars>>

UiNext ==
    \/ \E c \in ControllerIds, t \in Targets :
          /\ nextMesh <= MaxUiMeshes
          /\ onControllerSelectStart(c, t, Origin)
          /\ UNCHANGED <<controllerVars, widgetVars>>
    \/ \E c \in ControllerIds :
          /\ nextMesh <= MaxUiMeshes
          /\ onControllerSelectEnd(c)
          /\ UNCHANGED <<controllerVars, widgetVars>>
    \/ \E c \in ControllerIds : onSqueezeStart(c)
    \/ \E c \in ControllerIds : sampled < MaxUiSamples /\ renderController(c, FarPoint)
    \/ \E h \in UiHands : nextMesh <= MaxUiMeshes /\ onSelectStart(h, Origin)
    \/ \E h \in UiHands : nextMesh <= MaxUiMeshes /\ onSelectEnd(h)
    \/ \E h \in UiHands : sampled < MaxUiSamples /\ render(h, FarPoint)
    \/ renderIdle

UiSpec == Init /\ [][UiNext]_vars

----------------------------------------------------------------------------
(* App (main.ts): the triggers of the controllers as the XR session        *)
(* reports them, a selectstart followed by the selectend of the same       *)
(* controller, with everything the ray of the press can land on.           *)

MaxCtlMeshes == 3    \* meshes ever created in a run of presses and releases
MaxCtlSamples == 1   \* samples the render loop has fed to updateStroke

\* what the ray of a controller can hit when its trigger is pressed
AllTargets == {"shadeSphere", "undoButton", "clearButton", "paletteSingle",
               "paletteDouble", "none"}

\* what a press does: it lands on an element of the UI, or erases, or draws
PressKind(target) ==
    IF target # "none" THEN target
    ELSE IF isEraserMode THEN "eraser" ELSE "draw"

\* selectstart of a controller whose trigger was up: both listeners run, in
\* the order of their registration
Press(controller, target, position, aPressed) ==
    /\ ~triggers[controller].down
    /\ onControllerSelectStart(controller, target, position)
    /\ toggleEraserMode(controller, aPressed)
    /\ triggers' = [triggers EXCEPT ![controller] =
                        [down |-> TRUE, press |-> PressKind(target)]]
    /\ UNCHANGED widgetVars

\* selectend of a controller whose trigger was held
Release(controller) ==
    /\ triggers[controller].down
    /\ onControllerSelectEnd(controller)
    /\ triggers' = [triggers EXCEPT ![controller].down = FALSE]
    /\ UNCHANGED <<isEraserMode, widgetVars>>

ControllerNext ==
    \/ \E c \in ControllerIds, t \in AllTargets, a \in BOOLEAN :
          nextMesh <= MaxCtlMeshes /\ Press(c, t, Origin, a)
    \/ \E c \in ControllerIds : nextMesh <= MaxCtlMeshes /\ Release(c)
    \/ \E c \in ControllerIds : sampled < MaxCtlSamples /\ renderController(c, FarPoint)

ControllerSpec == Init /\ [][ControllerNext]_vars

----------------------------------------------------------------------------
(* App (main.ts): the fingertip of the right hand on the palette.  Every   *)
(* frame, render hands the position of the fingertip to                    *)
(* checkColorPaletteInteraction.  Positions are those of the widgets in    *)
(* the palette group, in units of 0.1 mm.                                  *)

INTERACTION_DISTANCE_SHADE == 200
INTERACTION_DISTANCE_BUTTON == 400
INTERACTION_DISTANCE_SLOT == 250

UndoPos == <<-1000, -2200, 200>>
ClearPos == <<1000, -2200, 200>>
SlotPos == <<-1500, 1500, 0>>      \* the sphere of slot 0, at the left end of the arc
ShadePos == <<-3000, 1000, 0>>     \* the first shade sphere of slot 0

MaxTouchFrames == 3    \* frames the fingertip stays on the Undo button
MaxFingerMeshes == 4   \* meshes ever created before and between the touches

\* fingerPos.distanceTo(worldPos) < distance
Within(fingerPos, worldPos, distance) == DistSq(fingerPos, worldPos) < Sq(distance)

\* where the fingertip can be: on the Undo button at its centre and 3 cm off
\* it, on the Clear button, on a slot, on a shade sphere, off the palette
FingerPositions == {UndoPos, <<-1000, -2200, 500>>, ClearPos, SlotPos, ShadePos, Origin}

\* the shade picker is tested first when it is open, then the Undo button,
\* the Clear button and the slots; tapType is what selectSlot returns for a
\* touched slot
checkColorPaletteInteraction(fingerPos, pickerOpen, tapType) ==
    IF pickerOpen /\ Within(fingerPos, ShadePos, INTERACTION_DISTANCE_SHADE)
    THEN /\ SetColor(SphereColor)
         /\ event' = Event("render", "hand-right", <<"setColor">>)
    ELSE IF Within(fingerPos, UndoPos, INTERACTION_DISTANCE_BUTTON)
    THEN /\ Undo
         /\ event' = Event("render", "hand-right", <<"undo">>)
    ELSE IF Within(fingerPos, ClearPos, INTERACTION_DISTANCE_BUTTON)
    THEN /\ Clear
         /\ event' = Event("render", "hand-right", <<"clear">>)
    ELSE IF Within(fingerPos, SlotPos, INTERACTION_DISTANCE_SLOT) /\ tapType = "single"
    THEN /\ SetColor(SphereColor)
         /\ event' = Event("render", "hand-right", <<"setColor">>)
    ELSE /\ UNCHANGED drawingVars
         /\ event' = Event("render", "hand-right", <<>>)

\* the touch of the Undo button after a frame with the fingertip at
\* fingerPos: a frame inside the interaction distance continues the touch or
\* begins one, a frame outside ends it
Touched(fingerPos) ==
    IF Within(fingerPos, UndoPos, INTERACTION_DISTANCE_BUTTON)
    THEN [onUndo |-> TRUE,
          frames |-> (IF touch.onUndo THEN touch.frames ELSE 0) + 1,
          undone |-> (IF touch.onUndo THEN touch.undone ELSE 0)
                         + (IF Len(strokes) > 0 THEN 1 ELSE 0)]
    ELSE [onUndo |-> FALSE, frames |-> 0, undone |-> 0]

\* a frame in which no hand is pinching and the right hand is tracked
renderFinger(fingerPos, pickerOpen, tapType) ==
    /\ "hand-right" \in tracked
    /\ \A h \in tracked : ~isPinching(h)
    /\ checkColorPaletteInteraction(fingerPos, pickerOpen, tapType)
    /\ updateButtonStates
    /\ touch' = Touched(fingerPos)
    /\ UNCHANGED <<sent, controllerVars>>
    /\ UNCHANGED <<menuVars, paletteVars, emitterVars, particleVars>>

FingerNext ==
    \/ nextMesh <= MaxFingerMeshes /\ onSelectStart("hand-right", Origin)
    \/ nextMesh <= MaxFingerMeshes /\ onSelectEnd("hand-right")
    \/ \E p \in FingerPositions, o \in BOOLEAN, t \in {"single", "double"} :
          touch.frames < MaxTouchFrames /\ renderFinger(p, o, t)

FingerSpec == Init /\ [][FingerNext]_vars

----------------------------------------------------------------------------
(* UIManager (ui.ts): the menu above the palm.  The buttons are the        *)
(* children of the menu group that carry a type, in the order initMenu     *)
(* adds them; positions are those in the menu group, in units of 0.1 mm.   *)

NoBtn == 0

MenuButtons ==
    << [type |-> "color",  value |-> 16711680, pos |-> <<-1000, 500, 100>>],
       [type |-> "color",  value |-> 65280,    pos |-> <<-500, 500, 100>>],
       [type |-> "color",  value |-> 255,      pos |-> <<0, 500, 100>>],
       [type |-> "color",  value |-> 16776960, pos |-> <<500, 500, 100>>],
       [type |-> "color",  value |-> 16777215, pos |-> <<1000, 500, 100>>],
       [type |-> "action", value |-> "undo",   pos |-> <<-500, -500, 100>>],
       [type |-> "action", value |-> "mute",   pos |-> <<500, -500, 100>>],
       [type |-> "size",   value |-> 50,       pos |-> <<-500, 0, 100>>],
       [type |-> "size",   value |-> 100,      pos |-> <<0, 0, 100>>],
       [type |-> "size",   value |-> 200,      pos |-> <<500, 0, 100>>] >>

HoverDistance == 300

MaxMenuMeshes == 3   \* meshes ever created around the calls of the menu
MaxMenuFires == 3    \* actions one stay of the fingertip on a button may fire

\* where the fingertip can be: on the first color button, half way between
\* the first two color buttons, on Undo, on Mute, on the middle size button,
\* off the menu
MenuFingerPositions == {<<-1000, 500, 100>>, <<-750, 500, 100>>, <<-500, -500, 100>>,
                        <<500, -500, 100>>, <<0, 0, 100>>, <<0, 3000, 0>>}

\* the forEach over the children keeps the last button within the distance
hoveredBtn(indexTipPosition) ==
    LET hit == {i \in 1..Len(MenuButtons) :
                   DistSq(MenuButtons[i].pos, indexTipPosition) < Sq(HoverDistance)}
    IN  IF hit = {} THEN NoBtn ELSE CHOOSE i \in hit : \A j \in hit : j <= i

handleInteraction(data) ==
    CASE data.type = "color" ->
             /\ SetColor(data.value)
             /\ UNCHANGED isMuted
             /\ event' = Event("checkIntersection", "", <<"setColor">>)
      [] data.type = "action" /\ data.value = "undo" ->
             /\ Undo
             /\ UNCHANGED isMuted
             /\ event' = Event("checkIntersection", "", <<"undo">>)
      [] data.type = "action" /\ data.value = "mute" ->
             /\ isMuted' = ~isMuted
             /\ UNCHANGED drawingVars
             /\ event' = Event("checkIntersection", "", <<"toggleAudio">>)
      [] data.type = "size" ->
             /\ SetSize(data.value)
             /\ UNCHANGED isMuted
             /\ event' = Event("checkIntersection", "", <<"setSize">>)

\* what the call leaves in the history: the state it found, the button it
\* resolved, and the actions fired since the fingertip came onto that button
MenuCalled(indexTipPosition, fired) ==
    LET h == IF isVisible THEN hoveredBtn(indexTipPosition) ELSE NoBtn
    IN  [visible |-> isVisible, active |-> activeBtn, hovered |-> h,
         fires |-> (IF h # NoBtn /\ h = menuCall.hovered THEN menuCall.fires ELSE 0)
                       + (IF fired THEN 1 ELSE 0)]

\* checkIntersection without the comparison with the active button
checkIntersectionEveryCall(indexTipPosition) ==
    /\ IF ~isVisible
       THEN /\ isHovering' = FALSE
            /\ UNCHANGED <<activeBtn, isMuted>>
            /\ UNCHANGED drawingVars
            /\ event' = Event("checkIntersection", "", <<>>)
       ELSE IF hoveredBtn(indexTipPosition) # NoBtn
       THEN /\ isHovering' = TRUE
            /\ activeBtn' = hoveredBtn(indexTipPosition)
            /\ handleInteraction(MenuButtons[hoveredBtn(indexTipPosition)])
       ELSE /\ isHovering' = FALSE
            /\ activeBtn' = NoBtn
            /\ UNCHANGED isMuted
            /\ UNCHANGED drawingVars
            /\ event' = Event("checkIntersection", "", <<>>)
    /\ menuCall' = MenuCalled(indexTipPosition, event'.calls # <<>>)
    /\ UNCHANGED <<sent, buttons, controllerVars, isVisible>>
    /\ UNCHANGED <<fingerVars, paletteVars, emitterVars, particleVars>>

checkIntersection(indexTipPosition) ==
    /\ IF ~isVisible
       THEN /\ isHovering' = FALSE
            /\ UNCHANGED <<activeBtn, isMuted>>
            /\ UNCHANGED drawingVars
            /\ event' = Event("checkIntersection", "", <<>>)
       ELSE IF hoveredBtn(indexTipPosition) # NoBtn
       THEN /\ isHovering' = TRUE
            /\ IF activeBtn # hoveredBtn(indexTipPosition)
               THEN /\ activeBtn' = hoveredBtn(indexTipPosition)
                    /\ handleInteraction(MenuButtons[hoveredBtn(indexTipPosition)])
               ELSE /\ UNCHANGED <<activeBtn, isMuted>>
                    /\ UNCHANGED drawingVars
                    /\ event' = Event("checkIntersection", "", <<>>)
       ELSE /\ isHovering' = FALSE
            /\ activeBtn' = NoBtn
            /\ UNCHANGED isMuted
            /\ UNCHANGED drawingVars
            /\ event' = Event("checkIntersection", "", <<>>)
    /\ menuCall' = MenuCalled(indexTipPosition, event'.calls # <<>>)
    /\ UNCHANGED <<sent, buttons, controllerVars, isVisible>>
    /\ UNCHANGED <<fingerVars, paletteVars, emitterVars, particleVars>>

show ==
    /\ isVisible' = TRUE
    /\ UNCHANGED drawingVars
    /\ UNCHANGED <<sent, buttons, event, controllerVars,
                   activeBtn, isHovering, isMuted, menuCall>>
    /\ UNCHANGED <<fingerVars, paletteVars, emitterVars, particleVars>>

hide ==
    /\ isVisible' = FALSE
    /\ UNCHANGED drawingVars
    /\ UNCHANGED <<sent, buttons, event, controllerVars,
                   activeBtn, isHovering, isMuted, menuCall>>
    /\ UNCHANGED <<fingerVars, paletteVars, emitterVars, particleVars>>

MenuNext ==
    \/ nextMesh <= MaxMenuMeshes /\ onSelectStart("hand-left", Origin)
    \/ nextMesh <= MaxMenuMeshes /\ onSelectEnd("hand-left")
    \/ show
    \/ hide
    \/ \E p \in MenuFingerPositions :
          menuCall.fires < MaxMenuFires /\ checkIntersection(p)

MenuSpec == Init /\ [][MenuNext]_vars

----------------------------------------------------------------------------
(* ColorPalette (ui.ts): the taps of the slots.  Date.now() is a clock in  *)
(* milliseconds that does not run backwards between two taps.              *)

DOUBLE_TAP_THRESHOLD == 500

Epoch == 1000          \* what Date.now() returns when the palette is built
MaxElapsed == 1000     \* milliseconds the clock runs on from there

\* the slots the taps go to, of the six the palette has
TappedSlots == 0..2

\* the time that passes between two readings of the clock: together they
\* put taps 0, 249, 250, 498, 499 and 500 ms apart
Ticks == {249, 250}

Elapse(ms) ==
    /\ now' = now + ms
    /\ UNCHANGED drawingVars
    /\ UNCHANGED <<sent, buttons, event, controllerVars, fingerVars, menuVars, emitterVars,
                   particleVars>>
    /\ UNCHANGED <<activeSlotIndex, lastTapTime, lastTappedSlot, tap>>

\* isDoubleTap with the threshold counted in
isDoubleTapInclusive(index) ==
    /\ index = lastTappedSlot
    /\ now - lastTapTime <= DOUBLE_TAP_THRESHOLD

isDoubleTap(index) ==
    /\ index = lastTappedSlot
    /\ now - lastTapTime < DOUBLE_TAP_THRESHOLD

\* what the call leaves in the history: its argument, its result, the
\* reading of the clock, the fields as it found them, and for every slot
\* the time of its latest tap (-1: never tapped)
Tapped(index) ==
    [index |-> index,
     ret |-> IF isDoubleTap(index) THEN "double" ELSE "single",
     at |-> now,
     pre |-> [activeSlotIndex |-> activeSlotIndex, lastTapTime |-> lastTapTime,
              lastTappedSlot |-> lastTappedSlot, tappedAt |-> tap.tappedAt],
     tappedAt |-> [tap.tappedAt EXCEPT ![index] = now]]

selectSlot(index) ==
    /\ lastTappedSlot' = index
    /\ lastTapTime' = now
    /\ activeSlotIndex' = IF isDoubleTap(index) THEN activeSlotIndex ELSE index
    /\ tap' = Tapped(index)
    /\ UNCHANGED now
    /\ UNCHANGED drawingVars
    /\ UNCHANGED <<sent, buttons, event, controllerVars, fingerVars, menuVars, emitterVars,
                   particleVars>>

PaletteNext ==
    \/ \E ms \in Ticks : now - Epoch < MaxElapsed /\ Elapse(ms)
    \/ \E i \in TappedSlots : selectSlot(i)

PaletteSpec == Init /\ [][PaletteNext]_vars

----------------------------------------------------------------------------
(* SimpleEventEmitter (networking.ts).  A listener is a callback that does *)
(* not call back into the emitter, as the listeners of this program do not. *)

EventNames == {"stroke-received", "peer-joined"}
Callbacks == {"cb1", "cb2"}

MaxOps == 4    \* calls of on and off

\* every other field of the program
notEmitterVars == <<drawingVars, sent, buttons, event, controllerVars,
                    fingerVars, menuVars, paletteVars, particleVars>>

\* this.listeners[event], undefined read as no listener
ListenersOf(ls, e) == IF e \in DOMAIN ls THEN ls[e] ELSE <<>>

\* a[key] = value
Put(ls, e, value) == [x \in DOMAIN ls \cup {e} |-> IF x = e THEN value ELSE ls[x]]

on(e, callback) ==
    /\ listeners' = Put(listeners, e, Append(ListenersOf(listeners, e), callback))
    /\ log' = Append(log, [op |-> "on", event |-> e, cb |-> callback])
    /\ UNCHANGED emission
    /\ UNCHANGED notEmitterVars

\* off that takes the callback off every event
offEveryEvent(e, callback) ==
    /\ listeners' = [x \in DOMAIN listeners |->
                        SelectSeq(listeners[x], LAMBDA cb : cb # callback)]
    /\ log' = Append(log, [op |-> "off", event |-> e, cb |-> callback])
    /\ UNCHANGED emission
    /\ UNCHANGED notEmitterVars

off(e, callback) ==
    /\ listeners' = IF e \notin DOMAIN listeners
                    THEN listeners
                    ELSE Put(listeners, e,
                             SelectSeq(listeners[e], LAMBDA cb : cb # callback))
    /\ log' = Append(log, [op |-> "off", event |-> e, cb |-> callback])
    /\ UNCHANGED emission
    /\ UNCHANGED notEmitterVars

\* the callbacks are called in the order of the array; what they are called
\* with plays no part
emit(e) ==
    /\ emission' = [event |-> e, calls |-> ListenersOf(listeners, e),
                    log |-> log, pre |-> listeners]
    /\ UNCHANGED <<listeners, log>>
    /\ UNCHANGED notEmitterVars

EmitterNext ==
    \/ \E e \in EventNames, cb \in Callbacks : Len(log) < MaxOps /\ on(e, cb)
    \/ \E e \in EventNames, cb \in Callbacks : Len(log) < MaxOps /\ off(e, cb)
    \/ \E e \in EventNames : emit(e)

EmitterSpec == Init /\ [][EmitterNext]_vars

----------------------------------------------------------------------------
(* ParticleSystem (ui.ts).  A particle is its age and the age it lives to, *)
(* in units of 0.1 s; its position, velocity and color play no part in     *)
(* what the system holds.  The specifications of the App above leave the   *)
(* particle system out.                                                     *)

maxParticles == 300

MaxEmits == 4      \* calls of emit
MaxUpdates == 3    \* calls of update

\* count and lifetime of an emission: a trail, a burst, and a count that
\* comes close to the cap
ParticleConfigs == {[count |-> 2, lifetime |-> 3], [count |-> 15, lifetime |-> 5],
                    [count |-> 290, lifetime |-> 5]}

\* the time between two frames
DeltaTimes == {2, 3}

\* every other field of the program
notParticleVars == <<drawingVars, sent, buttons, event, controllerVars,
                     fingerVars, menuVars, paletteVars, emitterVars>>

\* new Particle(position, vel, color, lifetime, size)
Particle(lifetime) == [lifetime |-> 0, maxLifetime |-> lifetime]

\* the rounds that push when the loop does not test the length
PushesUncapped(ps, count) == count

\* the rounds of the loop of emit that push a particle: the loop is left at
\* the first round that finds the array full, or after count rounds
Pushes(ps, count) ==
    IF Len(ps) >= maxParticles THEN 0
    ELSE IF count <= maxParticles - Len(ps) THEN count
    ELSE maxParticles - Len(ps)

\* the array after the loop
Emitted(ps, count, lifetime) ==
    ps \o [i \in 1..Pushes(ps, count) |-> Particle(lifetime)]

\* Particle.update: the particle after the frame
Aged(particle, deltaTime) == [particle EXCEPT !.lifetime = @ + deltaTime]

\* what Particle.update returns
Alive(particle) == particle.lifetime < particle.maxLifetime

psEmit(config) ==
    /\ particles' = Emitted(particles, config.count, config.lifetime)
    /\ psCall' = [op |-> "emit", count |-> config.count, preLen |-> Len(particles),
                  expired |-> 0, emits |-> psCall.emits + 1, updates |-> psCall.updates]
    /\ UNCHANGED notParticleVars

psUpdate(deltaTime) ==
    /\ particles' = SelectSeq([i \in 1..Len(particles) |-> Aged(particles[i], deltaTime)],
                              Alive)
    /\ psCall' = [op |-> "update", count |-> 0, preLen |-> Len(particles),
                  expired |-> Cardinality({i \in 1..Len(particles) :
                                 particles[i].lifetime + deltaTime
                                     >= particles[i].maxLifetime}),
                  emits |-> psCall.emits, updates |-> psCall.updates + 1]
    /\ UNCHANGED notParticleVars

ParticleNext ==
    \/ \E c \in ParticleConfigs : psCall.emits < MaxEmits /\ psEmit(c)
    \/ \E dt \in DeltaTimes : psCall.updates < MaxUpdates /\ psUpdate(dt)

ParticleSpec == Init /\ [][ParticleNext]_vars

----------------------------------------------------------------------------
(* Undo / redo laws *)

\* redo() ran directly after an undo() that found the store as snapshot[1]
RedoFollowedUndo == call.op = "redo" /\ snapshot # NoSnapshot

\* C1: for any non-empty committed list, undo() immediately followed by
\* redo() leaves the committed list exactly as it was before the undo (same
\* strokes, same positions, the undone stroke back at the tail) and the redo
\* stack as it was.
C1_UndoRedoRestores ==
    (RedoFollowedUndo /\ Len(snapshot[1].strokes) > 0)
        => /\ strokes = snapshot[1].strokes
           /\ undoneStrokes = snapshot[1].undoneStrokes

\* undo(); redo() has run on a store with two committed strokes and a
\* non-empty redo stack
C1_Witness ==
    /\ RedoFollowedUndo
    /\ Len(snapshot[1].strokes) >= 2
    /\ Len(snapshot[1].undoneStrokes) >= 1
    /\ Len(strokes) >= 2

\* the last call was an endStroke that found an active session
LocalCommit == call.op = "endStroke" /\ call.session # <<>>

\* C2: committing a locally drawn stroke (endStroke on an active session)
\* after any number of undos appends it to the committed list and empties the
\* redo stack, and a redo() on the emptied stack changes nothing; so commit A,
\* commit B, undo, commit C yields committed = [A, C] and an empty redo stack.
C2_LocalCommitClearsRedo ==
    /\ LocalCommit
        => /\ undoneStrokes = <<>>
           /\ Len(strokes) = Len(call.pre.strokes) + 1
           /\ Front(strokes) = call.pre.strokes
           /\ EncodeStroke(Last(strokes)) = call.ret[1]
    /\ (call.op = "redo" /\ call.pre.undoneStrokes = <<>>)
        => /\ strokes = call.pre.strokes
           /\ undoneStrokes = <<>>
           /\ scene = call.pre.scene

\* commit A, commit B, undo, commit C: the commit found one committed stroke
\* and one stroke on the redo stack, and left two and none
C2_Witness ==
    /\ LocalCommit
    /\ Len(call.pre.strokes) = 1
    /\ Len(call.pre.undoneStrokes) = 1
    /\ Len(strokes) = 2
    /\ strokes[1] = call.pre.strokes[1]
    /\ undoneStrokes = <<>>

\* the last call was a drawRemoteStroke that committed a stroke
RemoteCommit == call.op = "drawRemoteStroke" /\ strokes # call.pre.strokes

\* C3: every commit, including the commit of a stroke received from a peer
\* (drawRemoteStroke), leaves the redo stack empty, so redo() after an undo
\* followed by any commit is a no-op.
C3_EveryCommitClearsRedo ==
    (LocalCommit \/ RemoteCommit) => undoneStrokes = <<>>

----------------------------------------------------------------------------
(* Capture: taps, the gate and the wire data *)

\* the session the last endStroke consumed
Ended == call.session[1]

\* the last call ended a session none of whose samples passed the gate: its
\* buffer still holds only what startStroke put there
TapEnded == LocalCommit /\ Len(Ended.stroke.points) = MinPoints

\* C4: end() on a session that received start() and no update that passed
\* the distance gate returns null and leaves the committed list and the redo
\* stack unchanged.
C4_TapCommitsNothing ==
    TapEnded => /\ call.ret = <<>>
                /\ strokes = call.pre.strokes
                /\ undoneStrokes = call.pre.undoneStrokes

\* the scenario of C5: hand-right starts at the origin and receives
\* (0, 0, 0.02) and then (0, 0, 0.021)
ScenarioEnded ==
    /\ LocalCommit
    /\ call.key = "hand-right"
    /\ Ended.stroke.points[1] = Origin
    /\ Ended.samples = << <<0, 0, 200>>, <<0, 0, 210>> >>

\* C5 as stated: the scenario returns exactly the 2 points (0,0,0) and
\* (0,0,0.02).
C5_ScenarioTwoPoints ==
    ScenarioEnded
        => call.ret[1].points = <<EncodePoint(Origin), EncodePoint(<<0, 0, 200>>)>>

\* C5 as amended: the scenario returns exactly 3 points, the start point
\* twice and (0, 0, 0.0132): the first sample is filtered to 0.008, within
\* 1 cm of the start, and gated out; the second is filtered to 0.0132 and
\* appended.
C5_ScenarioThreePoints ==
    ScenarioEnded
        => call.ret[1].points =
              <<EncodePoint(Origin), EncodePoint(Origin), EncodePoint(<<0, 0, 132>>)>>

C5_Witness == ScenarioEnded /\ call.ret # <<>>

\* the number of samples of a session that pass the gate, replayed from the
\* start point: the filtered position and the last retained point are carried
\* along
RECURSIVE Retained(_, _, _, _)
Retained(samples, i, smoothed, lastPoint) ==
    IF i > Len(samples) THEN 0
    ELSE LET next == Lerp(smoothed, samples[i])
         IN IF PassesGate(next, lastPoint)
            THEN 1 + Retained(samples, i + 1, next, next)
            ELSE Retained(samples, i + 1, next, lastPoint)

RetainedOf(session) ==
    Retained(session.samples, 1, session.stroke.points[1], session.stroke.points[1])

\* C6: end() returns a wire stroke whose point count is the number of points
\* the session retained (the two points startStroke seeds and one per sample
\* that passed the distance gate), not the number of samples delivered.
C6_WireCountIsRetained ==
    LocalCommit
        => /\ call.ret # <<>>
           /\ Len(call.ret[1].points) = MinPoints + RetainedOf(Ended)
           /\ RetainedOf(Ended) <= Len(Ended.samples)

\* a session ended after three samples of which two passed the gate
C6_Witness ==
    /\ LocalCommit
    /\ Len(Ended.samples) = 3
    /\ RetainedOf(Ended) = 2
    /\ Len(call.ret[1].points) = 4

\* C7: decoding the wire data endStroke returned (feeding it to
\* drawRemoteStroke) commits a stroke with the same points in the same order,
\* the same color and the same size as the stroke endStroke committed.
C7_RoundTrip ==
    (RemoteCommit /\ Len(strokes) >= 2
        /\ call.data[1] = EncodeStroke(strokes[Len(strokes) - 1]))
        => /\ Last(strokes).points = strokes[Len(strokes) - 1].points
           /\ Last(strokes).color = strokes[Len(strokes) - 1].color
           /\ Last(strokes).size = strokes[Len(strokes) - 1].size

\* a stroke of three points, drawn with a changed color and size, has been
\* sent round
C7_Witness ==
    /\ RemoteCommit
    /\ Len(strokes) = 2
    /\ call.data[1] = EncodeStroke(strokes[1])
    /\ Len(strokes[1].points) >= 3
    /\ strokes[1].points[3][2] # strokes[1].points[3][3]
    /\ strokes[1].color # DefaultBrushColor
    /\ strokes[1].size # DefaultBrushSize
    /\ strokes[1].mesh # strokes[2].mesh

----------------------------------------------------------------------------
(* Erase and clear *)

\* C8: deleteStroke with a mesh that belongs to no committed stroke (the
\* mesh of a stroke on the redo stack, a preview, an already erased one)
\* changes nothing: the committed list, the redo stack, the scene, the set
\* of disposed resources and the sessions stay as they were.
C8_EraseAbsentChangesNothing ==
    (call.op = "deleteStroke" /\ call.mesh \notin MeshesOf(call.pre.strokes))
        => /\ strokes = call.pre.strokes
           /\ undoneStrokes = call.pre.undoneStrokes
           /\ scene = call.pre.scene
           /\ disposed = call.pre.disposed
           /\ activeStrokes = call.pre.activeStrokes

\* deleteStroke has been called with the mesh of a stroke on the redo stack
C8_Witness ==
    /\ call.op = "deleteStroke"
    /\ call.mesh \notin MeshesOf(call.pre.strokes)
    /\ call.mesh \in MeshesOf(undoneStrokes)
    /\ strokes # <<>>

\* C9: deleteStroke with the mesh of a committed stroke removes exactly that
\* stroke, keeps the others in their order, takes the mesh out of the scene
\* and disposes it, and empties the redo stack.
C9_EraseRemovesExactlyOne ==
    (call.op = "deleteStroke" /\ call.mesh \in MeshesOf(call.pre.strokes))
        => /\ Len(strokes) = Len(call.pre.strokes) - 1
           /\ \E i \in 1..Len(call.pre.strokes) :
                 /\ call.pre.strokes[i].mesh = call.mesh
                 /\ \A j \in 1..(i - 1) : strokes[j] = call.pre.strokes[j]
                 /\ \A j \in i..Len(strokes) : strokes[j] = call.pre.strokes[j + 1]
           /\ call.mesh \notin MeshesOf(strokes)
           /\ disposed = call.pre.disposed \cup {call.mesh}
           /\ scene = call.pre.scene \ {call.mesh}
           /\ undoneStrokes = <<>>

\* the middle one of three committed strokes has been erased while the redo
\* stack held a stroke
C9_Witness ==
    /\ call.op = "deleteStroke"
    /\ Len(call.pre.strokes) = 3
    /\ call.pre.strokes[2].mesh = call.mesh
    /\ Len(call.pre.undoneStrokes) = 1
    /\ strokes = <<call.pre.strokes[1], call.pre.strokes[3]>>
    /\ call.mesh \in disposed
    /\ undoneStrokes = <<>>

\* C10: clear() leaves the committed list and the redo stack empty, with
\* canUndo() false, and disposes the mesh of every stroke that was committed.
C10_ClearEmptiesStore ==
    call.op = "clear"
        => /\ strokes = <<>>
           /\ undoneStrokes = <<>>
           /\ ~canUndo
           /\ MeshesOf(call.pre.strokes) \subseteq disposed
           /\ scene \cap MeshesOf(call.pre.strokes) = {}

\* clear() has run on a store of 3 committed strokes and 1 redo-stack entry
C10_Witness ==
    /\ call.op = "clear"
    /\ Len(call.pre.strokes) = 3
    /\ Len(call.pre.undoneStrokes) = 1
    /\ strokes = <<>>
    /\ undoneStrokes = <<>>
    /\ ~canUndo
    /\ Cardinality(MeshesOf(call.pre.strokes) \cap disposed) = 3

----------------------------------------------------------------------------
(* undo(), redo() and degenerate wire input, one call at a time *)

\* C11: undo() on a non-empty committed list removes its last stroke, takes
\* that stroke's mesh out of the scene without disposing it, and pushes the
\* stroke on top of the redo stack; undo() on an empty committed list changes
\* nothing.
C11_UndoMovesLastToRedo ==
    call.op = "undo"
        => IF call.pre.strokes # <<>>
           THEN /\ strokes = Front(call.pre.strokes)
                /\ undoneStrokes = Append(call.pre.undoneStrokes, Last(call.pre.strokes))
                /\ scene = call.pre.scene \ {Last(call.pre.strokes).mesh}
                /\ disposed = call.pre.disposed
                /\ Last(undoneStrokes).mesh \notin disposed
           ELSE /\ strokes = <<>>
                /\ undoneStrokes = call.pre.undoneStrokes
                /\ scene = call.pre.scene
                /\ disposed = call.pre.disposed

\* undo() has taken the second of two committed strokes, whose mesh was in
\* the scene, onto a redo stack that already held one
C11_Witness ==
    /\ call.op = "undo"
    /\ Len(call.pre.strokes) = 2
    /\ Len(call.pre.undoneStrokes) = 1
    /\ call.pre.strokes[2].mesh \in call.pre.scene
    /\ Len(undoneStrokes) = 2
    /\ undoneStrokes[2] = call.pre.strokes[2]
    /\ undoneStrokes[2].mesh \notin scene

\* C12: redo() on a non-empty redo stack pops the most recently undone
\* stroke, puts its mesh back in the scene and appends the stroke at the
\* tail of the committed list; redo() on an empty redo stack changes nothing.
C12_RedoRestoresMostRecent ==
    call.op = "redo"
        => IF call.pre.undoneStrokes # <<>>
           THEN /\ undoneStrokes = Front(call.pre.undoneStrokes)
                /\ strokes = Append(call.pre.strokes, Last(call.pre.undoneStrokes))
                /\ scene = call.pre.scene \cup {Last(call.pre.undoneStrokes).mesh}
                /\ disposed = call.pre.disposed
           ELSE /\ undoneStrokes = <<>>
                /\ strokes = call.pre.strokes
                /\ scene = call.pre.scene
                /\ disposed = call.pre.disposed

\* redo() has run on a redo stack of two different strokes and a committed
\* list of one
C12_Witness ==
    /\ call.op = "redo"
    /\ Len(call.pre.undoneStrokes) = 2
    /\ call.pre.undoneStrokes[1] # call.pre.undoneStrokes[2]
    /\ Len(call.pre.strokes) = 1
    /\ Len(strokes) = 2
    /\ strokes[2] = call.pre.undoneStrokes[2]
    /\ strokes[2].mesh \in scene
    /\ strokes[2].mesh \notin call.pre.scene

\* the last call handed drawRemoteStroke wire data of fewer than 2 points
DegenerateDelivered ==
    /\ call.op = "drawRemoteStroke"
    /\ Len(call.data[1].points) < MinPoints

\* C13: a wire stroke with fewer than 2 points delivered to drawRemoteStroke
\* is dropped: the committed list, the redo stack, the scene, the disposed
\* resources and every active session are unchanged.
C13_DegenerateWireDropped ==
    DegenerateDelivered
        => /\ strokes = call.pre.strokes
           /\ undoneStrokes = call.pre.undoneStrokes
           /\ scene = call.pre.scene
           /\ disposed = call.pre.disposed
           /\ activeStrokes = call.pre.activeStrokes

\* a single-point wire stroke has been delivered while the store held a
\* committed stroke, a redo-stack entry and an active session
C13_Witness ==
    /\ DegenerateDelivered
    /\ Len(call.data[1].points) = 1
    /\ call.pre.strokes # <<>>
    /\ call.pre.undoneStrokes # <<>>
    /\ DOMAIN call.pre.activeStrokes # {}

----------------------------------------------------------------------------
(* Sessions *)

\* the preview meshes of the active sessions
PreviewsOf(sessions) == {sessions[k].stroke.mesh : k \in DOMAIN sessions} \ {NoMesh}

\* C14: a second startStroke for a source key that already has an active
\* session is either rejected (the existing session is unchanged) or ends
\* the prior session (its preview is taken out of the scene); and in no
\* reachable state does the scene hold a mesh that belongs to no active
\* session and to no committed stroke.
C14_SecondStartLeaksNothing ==
    /\ (call.op = "startStroke" /\ call.key \in DOMAIN call.pre.activeStrokes)
        => \/ activeStrokes[call.key] = call.pre.activeStrokes[call.key]
           \/ call.pre.activeStrokes[call.key].stroke.mesh \notin scene
    /\ scene \subseteq MeshesOf(strokes) \cup PreviewsOf(activeStrokes)

SessionOps == {"startStroke", "updateStroke", "endStroke"}

\* C15: sessions with different source keys are independent: startStroke,
\* updateStroke and endStroke on one key leave every active session of
\* another key as it was (point buffer, filter state, color, size, preview
\* mesh), and its preview in the scene and undisposed, under every
\* interleaving of the two hands' operations.
C15_SessionsIndependent ==
    call.op \in SessionOps
        => \A b \in (DOMAIN call.pre.activeStrokes) \ {call.key} :
              /\ b \in DOMAIN activeStrokes
              /\ activeStrokes[b] = call.pre.activeStrokes[b]
              /\ activeStrokes[b].stroke.mesh \in scene
              /\ activeStrokes[b].stroke.mesh \notin disposed

\* an update of the left hand has extended its buffer while the right hand's
\* session, of another color and with its filter moved by an earlier update,
\* was active
C15_Witness ==
    /\ call.op = "updateStroke"
    /\ call.key = "hand-left"
    /\ "hand-right" \in DOMAIN call.pre.activeStrokes
    /\ Len(call.pre.activeStrokes["hand-right"].samples) = 1
    /\ call.pre.activeStrokes["hand-right"].smoothedPosition # Origin
    /\ "hand-left" \in DOMAIN activeStrokes
    /\ Len(activeStrokes["hand-left"].stroke.points) = 3
    /\ Len(call.pre.activeStrokes["hand-left"].stroke.points) = 2
    /\ activeStrokes["hand-left"].smoothedPosition
          # activeStrokes["hand-right"].smoothedPosition
    /\ activeStrokes["hand-left"].stroke.color
          # activeStrokes["hand-right"].stroke.color

----------------------------------------------------------------------------
(* Render resources *)

\* the meshes the last call handed to dispose(): clear() those of all the
\* committed strokes, deleteStroke that of the stroke it found, endStroke the
\* preview of the session it ended
DisposedByCall ==
    IF call.op = "clear" THEN MeshesOf(call.pre.strokes)
    ELSE IF call.op = "deleteStroke" THEN {call.mesh} \cap MeshesOf(call.pre.strokes)
    ELSE IF LocalCommit THEN {Ended.stroke.mesh} \ {NoMesh}
    ELSE {}

\* C16: over every sequence of start, update, end, remote commit, undo,
\* redo, erase and clear, no render resource is disposed more than once: the
\* meshes a call disposes were undisposed before it, and no mesh is held by
\* two strokes, so no call disposes one twice.
C16_NoDoubleDispose ==
    /\ disposed = call.pre.disposed \cup DisposedByCall
    /\ DisposedByCall \cap call.pre.disposed = {}
    /\ Cardinality(MeshesOf(strokes \o undoneStrokes)) = Len(strokes) + Len(undoneStrokes)

\* clear() has disposed two committed strokes after an earlier call had
\* disposed a committed stroke's mesh
C16_Witness ==
    /\ call.op = "clear"
    /\ Cardinality(DisposedByCall) = 2
    /\ \E m \in call.pre.disposed : m \notin DOMAIN curve \/ curve[m] # <<>>
    /\ DisposedByCall \subseteq disposed

\* the meshes of the strokes in the committed list or on the redo stack
Held(committed, redoStack) == MeshesOf(committed) \cup MeshesOf(redoStack)

\* C17: in every reachable state each stroke in the committed list or on the
\* redo stack holds a live (non-null, undisposed) mesh, and each stroke that
\* has left both has had its mesh disposed, the strokes dropped from the redo
\* stack by a commit, an erase or clear() included.
C17_ResourcesFollowMembership ==
    /\ \A i \in 1..Len(strokes) : strokes[i].mesh # NoMesh
    /\ \A i \in 1..Len(undoneStrokes) : undoneStrokes[i].mesh # NoMesh
    /\ Held(strokes, undoneStrokes) \cap disposed = {}
    /\ Held(call.pre.strokes, call.pre.undoneStrokes) \ Held(strokes, undoneStrokes)
          \subseteq disposed

----------------------------------------------------------------------------
(* Loss of the input source *)

\* C18: if the hand of an active session is no longer reported (tracking
\* lost, so no further update and no end event), the session is eventually
\* discarded and its preview mesh taken out of the scene and disposed.
C18_LostSessionReleased ==
    \A h \in SourceIds :
        (h \in DOMAIN activeStrokes /\ h \notin tracked)
            ~> (h \notin DOMAIN activeStrokes)

----------------------------------------------------------------------------
(* Remote strokes and order *)

\* C19: a stroke committed from a peer (drawRemoteStroke) creates no undo
\* entry: undo() never removes a remote stroke from the committed list, and
\* no remote stroke is ever on the redo stack.
C19_UndoSkipsRemote ==
    /\ \A i \in 1..Len(undoneStrokes) : undoneStrokes[i].origin # "remote"
    /\ call.op = "undo"
        => \A i \in 1..Len(call.pre.strokes) :
              call.pre.strokes[i].origin = "remote"
                  => \E j \in 1..Len(strokes) : strokes[j] = call.pre.strokes[i]

\* C20: the strokes in the committed list appear in creation order: of any
\* two, the one first committed earlier is at the lower index.  A stroke's
\* mesh is created by the call that first commits it (endStroke's final tube,
\* drawRemoteStroke's tube) and handles are allocated in increasing order, so
\* the order of first commits is the order of the mesh handles.
C20_CommittedInCreationOrder ==
    \A i, j \in 1..Len(strokes) : i < j => strokes[i].mesh < strokes[j].mesh

\* the last call was updateStroke on a key that had an active session
UpdatedActive ==
    /\ call.op = "updateStroke"
    /\ call.key \in DOMAIN call.pre.activeStrokes
    /\ call.key \in DOMAIN activeStrokes

\* the session of the last update, before and after it, and the raw sample
Before == call.pre.activeStrokes[call.key]

After == activeStrokes[call.key]

RawSample == Last(After.samples)

\* the last update was rejected by the 1 cm gate
GatedOut == UpdatedActive /\ ~PassesGate(After.smoothedPosition, Last(Before.stroke.points))

\* C24: an update on an active session moves the filter 0.4 of the way to the
\* raw position and appends exactly that filtered position when it lies more
\* than 1 cm from the last appended point; otherwise it appends nothing
C24_UpdateAppendsFilteredPoint ==
    UpdatedActive =>
        LET smoothed == Lerp(Before.smoothedPosition, RawSample)
        IN /\ After.smoothedPosition = smoothed
           /\ IF DistSq(smoothed, Last(Before.stroke.points)) > Sq(GateDist)
              THEN After.stroke.points = Append(Before.stroke.points, smoothed)
              ELSE After.stroke.points = Before.stroke.points

\* an update appended a filtered point that differs from the raw sample,
\* after an earlier update of the same session had appended nothing
C24_Witness ==
    /\ UpdatedActive
    /\ Len(After.samples) = 2
    /\ Len(Before.stroke.points) = 2
    /\ Len(After.stroke.points) = 3
    /\ Last(After.stroke.points) # RawSample
    /\ Last(After.stroke.points) = After.smoothedPosition

\* the store and the session's buffer and preview are as they were before
\* the last call
BufferPreviewStoreKept ==
    /\ After.stroke = Before.stroke
    /\ After.lastPosition = Before.lastPosition
    /\ curve = call.pre.curve
    /\ strokes = call.pre.strokes
    /\ undoneStrokes = call.pre.undoneStrokes
    /\ scene = call.pre.scene
    /\ disposed = call.pre.disposed
    /\ DOMAIN activeStrokes = DOMAIN call.pre.activeStrokes
    /\ \A k \in DOMAIN activeStrokes \ {call.key} :
          activeStrokes[k] = call.pre.activeStrokes[k]

\* C25 (as stated): an update rejected by the gate is a no-op: it leaves the
\* point buffer, the preview geometry and the store unchanged, and leaves
\* nothing behind in the session that a later update or end() reads
C25_SubThresholdIsNoOp ==
    GatedOut =>
        /\ BufferPreviewStoreKept
        /\ After.smoothedPosition = Before.smoothedPosition

\* C25 (amended): an update rejected by the gate leaves the point buffer, the
\* preview geometry and the store unchanged, but it does advance the low-pass
\* filter 0.4 of the way to the raw position, which the next update starts from
C25_SubThresholdAdvancesFilter ==
    GatedOut =>
        /\ BufferPreviewStoreKept
        /\ After.smoothedPosition = Lerp(Before.smoothedPosition, RawSample)

\* the first update of a session, 2 cm away, was rejected by the gate and
\* moved the filter 8 mm off the start point
C25_Witness ==
    /\ GatedOut
    /\ After.samples = << <<0, 0, 200>> >>
    /\ Before.smoothedPosition = Origin
    /\ After.smoothedPosition = <<0, 0, 80>>
    /\ After.stroke.points = <<Origin, Origin>>

\* nothing the drawing system holds differs from before the last call
NothingChanged ==
    /\ activeStrokes = call.pre.activeStrokes
    /\ strokes = call.pre.strokes
    /\ undoneStrokes = call.pre.undoneStrokes
    /\ scene = call.pre.scene
    /\ disposed = call.pre.disposed
    /\ curve = call.pre.curve

\* C26: endStroke(key) on an active session appends the session's stroke at
\* the tail of the committed list, returns wire data with the same points,
\* color and size, and removes the session; an updateStroke(key) that finds no
\* session changes nothing, and an endStroke(key) that finds none returns null
\* and commits nothing
C26_EndCommitsAndDestroysSession ==
    /\ LocalCommit =>
          /\ Len(strokes) = Len(call.pre.strokes) + 1
          /\ Front(strokes) = call.pre.strokes
          /\ Last(strokes).points = Ended.stroke.points
          /\ Last(strokes).color = Ended.stroke.color
          /\ Last(strokes).size = Ended.stroke.size
          /\ Len(call.ret[1].points) = Len(Ended.stroke.points)
          /\ \A i \in 1..Len(Ended.stroke.points) :
                /\ call.ret[1].points[i].x = Ended.stroke.points[i][1]
                /\ call.ret[1].points[i].y = Ended.stroke.points[i][2]
                /\ call.ret[1].points[i].z = Ended.stroke.points[i][3]
          /\ call.ret[1].color = Ended.stroke.color
          /\ call.ret[1].size = Ended.stroke.size
          /\ call.key \notin DOMAIN activeStrokes
    /\ (call.op = "updateStroke" /\ call.key \notin DOMAIN call.pre.activeStrokes)
          => NothingChanged
    /\ (call.op = "endStroke" /\ call.key \notin DOMAIN call.pre.activeStrokes)
          => /\ call.ret = <<>>
             /\ NothingChanged

\* a stroke of three points was committed and its session removed, and the
\* endStroke of the same key that came next returned null
C26_Witness ==
    /\ call.op = "endStroke"
    /\ call.ret = <<>>
    /\ call.key = "hand-right"
    /\ Len(strokes) = 1
    /\ Len(strokes[1].points) = 3
    /\ strokes[1].origin = "local"
    /\ nextMesh = 3
    /\ activeStrokes = call.pre.activeStrokes

\* C27: every stroke of the committed list and of the redo stack has at least
\* two points in its buffer, whether it was drawn locally or received
C27_CommittedHaveTwoPoints ==
    /\ \A i \in 1..Len(strokes) : Len(strokes[i].points) >= 2
    /\ \A i \in 1..Len(undoneStrokes) : Len(undoneStrokes[i].points) >= 2

\* a received stroke is committed and a locally drawn stroke, ended without
\* any appended sample, is on the redo stack, after a one-point wire stroke
\* was delivered and dropped
C27_Witness ==
    /\ DegenerateDelivered
    /\ Len(strokes) = 1
    /\ strokes[1].origin = "remote"
    /\ Len(undoneStrokes) = 1
    /\ undoneStrokes[1].origin = "local"
    /\ Len(undoneStrokes[1].points) = 2

\* C28: every spline that was fitted (for a preview line, for the tube built
\* by endStroke, for the tube of a received stroke) was fitted over at least
\* two points among which none lies within 1 mm of its predecessor
C28_SplineFitsOverFilteredPoints ==
    \A m \in DOMAIN curve :
        curve[m] # <<>> =>
            /\ Len(curve[m]) >= MinPoints
            /\ UniquePoints(curve[m]) = curve[m]

\* C29: a stroke is appended to the committed list when its endStroke runs:
\* it goes behind every stroke committed before, also behind those whose
\* session was started later than its own (a session's preview handle is
\* allocated by startStroke, a committed stroke's handle by endStroke)
C29_CommittedInEndOrder ==
    LocalCommit =>
        /\ Front(strokes) = call.pre.strokes
        /\ Last(strokes).points = Ended.stroke.points
        /\ \A i \in 1..Len(call.pre.strokes) :
              call.pre.strokes[i].mesh < Last(strokes).mesh

\* the left hand started first (preview 1), the right hand started second
\* (preview 2) and ended first (tube 3); the left hand's stroke, ended last
\* (tube 4), is behind the right hand's
C29_Witness ==
    /\ LocalCommit
    /\ call.key = "hand-left"
    /\ Ended.stroke.mesh = 1
    /\ Len(strokes) = 2
    /\ strokes[1].mesh = 3
    /\ strokes[2].mesh = 4
    /\ strokes[2].points = Ended.stroke.points
    /\ Len(Ended.stroke.points) = 3

\* the strokes of the active sessions (a stroke object is identified by the
\* one mesh it owns)
ActiveMeshes == {activeStrokes[k].stroke.mesh : k \in DOMAIN activeStrokes}

\* C30: no stroke is held twice: the committed list and the redo stack have
\* no stroke in common, neither holds a stroke twice, and the stroke of an
\* active session is in neither
C30_StrokeHeldOnce ==
    /\ \A i, j \in 1..Len(strokes) : strokes[i].mesh = strokes[j].mesh => i = j
    /\ \A i, j \in 1..Len(undoneStrokes) :
          undoneStrokes[i].mesh = undoneStrokes[j].mesh => i = j
    /\ MeshesOf(strokes) \cap MeshesOf(undoneStrokes) = {}
    /\ ActiveMeshes \cap (MeshesOf(strokes) \cup MeshesOf(undoneStrokes)) = {}
    /\ Cardinality(ActiveMeshes) = Cardinality(DOMAIN activeStrokes)

\* a stroke committed, a stroke on the redo stack restored by redo() while
\* another stayed there, and a session being drawn
C30_Witness ==
    /\ call.op = "redo"
    /\ Len(call.pre.undoneStrokes) = 2
    /\ Len(undoneStrokes) = 1
    /\ Len(strokes) >= 1
    /\ DOMAIN activeStrokes # {}

\* the last call handed drawRemoteStroke wire data of at least 2 points
ValidDelivered ==
    /\ call.op = "drawRemoteStroke"
    /\ Len(call.data[1].points) >= MinPoints

\* C22: every wire stroke of at least 2 points handed over by the
\* 'stroke-received' listener appends exactly one stroke, with the decoded
\* points and the wire's color and size, at the tail of the committed list,
\* whatever sessions are being drawn at that moment and whether or not an
\* equal stroke is committed already; the sessions are left as they were
C22_DeliveryAppendsOne ==
    ValidDelivered =>
        /\ Len(strokes) = Len(call.pre.strokes) + 1
        /\ Front(strokes) = call.pre.strokes
        /\ Len(Last(strokes).points) = Len(call.data[1].points)
        /\ \A i \in 1..Len(call.data[1].points) :
              Last(strokes).points[i] = <<call.data[1].points[i].x,
                                          call.data[1].points[i].y,
                                          call.data[1].points[i].z>>
        /\ Last(strokes).color = call.data[1].color
        /\ Last(strokes).size = call.data[1].size
        /\ activeStrokes = call.pre.activeStrokes

\* the same wire stroke was delivered twice and is committed twice, the
\* second time between two frames of a session that is still being drawn
C22_Witness ==
    /\ ValidDelivered
    /\ Len(strokes) = 2
    /\ strokes[1].origin = "remote"
    /\ strokes[1].points = strokes[2].points
    /\ strokes[1].color = strokes[2].color
    /\ strokes[1].size = strokes[2].size
    /\ strokes[1].mesh # strokes[2].mesh
    /\ \E k \in DOMAIN activeStrokes : Len(activeStrokes[k].samples) = 1

\* the handler that ran last was a release (selectend) of a hand or controller
Released == event.name = "selectend"

\* the release that ran last called endStroke, and endStroke returned data
ReleaseCommitted ==
    /\ Released
    /\ event.calls = <<"endStroke">>
    /\ call.ret # <<>>

\* C21: a release whose endStroke commits a stroke hands exactly that
\* stroke's wire data to sendStroke, once, with the stroke already at the
\* tail of the committed list; a release whose endStroke returns null, a
\* controller release that was not drawing, and every other handler send
\* nothing
C21_CommitSendsOnce ==
    /\ ReleaseCommitted =>
          /\ sent = Append(event.sent, call.ret[1])
          /\ strokes # <<>>
          /\ Last(sent).points =
                [i \in 1..Len(Last(strokes).points) |->
                    [x |-> Last(strokes).points[i][1],
                     y |-> Last(strokes).points[i][2],
                     z |-> Last(strokes).points[i][3]]]
          /\ Last(sent).color = Last(strokes).color
          /\ Last(sent).size = Last(strokes).size
    /\ ~ReleaseCommitted => sent = event.sent

\* the right controller released a stroke of three points, the second stroke
\* committed and sent in the run
C21_Witness ==
    /\ ReleaseCommitted
    /\ event.source = "controller-right"
    /\ Len(event.sent) = 1
    /\ Len(sent) = 2
    /\ Len(sent[2].points) = 3

\* the handler that ran last was a frame of the render loop
Framed == event.name = "render"

\* C23 (as stated): in every state canUndo() is true exactly when the
\* committed list is non-empty, and the Undo and Clear buttons are marked
\* disabled exactly when canUndo() is false
C23_ButtonsTrackCanUndo ==
    /\ canUndo <=> strokes # <<>>
    /\ buttons.undo <=> ~canUndo
    /\ buttons.clear <=> ~canUndo

\* C23 (amended): canUndo() is true exactly when the committed list is
\* non-empty, and at the end of every frame the Undo and Clear buttons are
\* marked disabled exactly when canUndo() is false; the two marks are always
\* equal to each other
C23_ButtonsTrackCanUndoPerFrame ==
    /\ canUndo <=> strokes # <<>>
    /\ buttons.undo = buttons.clear
    /\ Framed =>
          /\ buttons.undo <=> ~canUndo
          /\ buttons.clear <=> ~canUndo

\* the Clear button was pressed on a non-empty list, and the frame that
\* followed marked both buttons disabled
C23_Witness ==
    /\ Framed
    /\ call.op = "clear"
    /\ call.pre.strokes # <<>>
    /\ strokes = <<>>
    /\ buttons.undo
    /\ buttons.clear

\* the last call was updateStroke or endStroke for a key without a session
CalledWithoutSession ==
    /\ call.op \in {"updateStroke", "endStroke"}
    /\ call.key \notin DOMAIN call.pre.activeStrokes

\* C31: updateStroke(key, ...) and endStroke(key) for a key that has no
\* active session create no session, leave the committed list, the redo
\* stack, the scene and the other sessions as they were, and endStroke
\* returns null
C31_NoSessionNoEffect ==
    CalledWithoutSession =>
        /\ call.key \notin DOMAIN activeStrokes
        /\ activeStrokes = call.pre.activeStrokes
        /\ strokes = call.pre.strokes
        /\ undoneStrokes = call.pre.undoneStrokes
        /\ scene = call.pre.scene
        /\ disposed = call.pre.disposed
        /\ curve = call.pre.curve
        /\ call.ret = <<>>

\* updateStroke was called for the left hand, which has no session, while
\* the right hand is drawing and both the committed list and the redo stack
\* hold a stroke
C31_Witness ==
    /\ call.op = "updateStroke"
    /\ call.key = "hand-left"
    /\ CalledWithoutSession
    /\ DOMAIN activeStrokes = {"hand-right"}
    /\ Len(strokes) = 1
    /\ Len(undoneStrokes) = 1

\* the operations of the store, and the remote commit
StoreOps == {"undo", "redo", "deleteStroke", "clear", "drawRemoteStroke"}

\* C32: undo, redo, deleteStroke, clear and drawRemoteStroke leave every
\* active session as it was (point buffer, filter state, last position) and
\* its preview line in the scene, undisposed and with the same geometry; an
\* endStroke that follows still appends the session's stroke at the tail of
\* the committed list as the store then is
C32_StoreOpsLeaveSessions ==
    /\ call.op \in StoreOps =>
          /\ activeStrokes = call.pre.activeStrokes
          /\ \A k \in DOMAIN activeStrokes :
                LET line == activeStrokes[k].stroke.mesh
                IN /\ line \in scene <=> line \in call.pre.scene
                   /\ line \in disposed <=> line \in call.pre.disposed
                   /\ curve[line] = call.pre.curve[line]
    /\ LocalCommit =>
          /\ Front(strokes) = call.pre.strokes
          /\ Last(strokes).points = Ended.stroke.points
          /\ Last(strokes).color = Ended.stroke.color
          /\ Last(strokes).size = Ended.stroke.size
          /\ Last(strokes).mesh \in scene

\* a session with one appended sample was ended after a remote stroke had
\* been committed during it (the remote tube is younger than the session's
\* preview line), and its stroke went behind the remote one
C32_Witness ==
    /\ LocalCommit
    /\ Len(Ended.stroke.points) = 3
    /\ Len(strokes) = 2
    /\ strokes[1].origin = "remote"
    /\ strokes[1].mesh > Ended.stroke.mesh
    /\ strokes[2].points = Ended.stroke.points

\* C33: startStroke gives the stroke the brush color and size of that moment;
\* setColor and setSize change no session and no committed or undone stroke;
\* updateStroke and endStroke keep the stroke's color and size; so a stroke
\* is committed with the brush that was current when its session started
C33_BrushFixedAtStart ==
    /\ call.op = "startStroke" =>
          /\ activeStrokes[call.key].stroke.color = brushColor
          /\ activeStrokes[call.key].stroke.size = brushSize
    /\ call.op \in {"setColor", "setSize"} =>
          /\ activeStrokes = call.pre.activeStrokes
          /\ strokes = call.pre.strokes
          /\ undoneStrokes = call.pre.undoneStrokes
    /\ UpdatedActive =>
          /\ After.stroke.color = Before.stroke.color
          /\ After.stroke.size = Before.stroke.size
    /\ LocalCommit =>
          /\ Last(strokes).color = Ended.stroke.color
          /\ Last(strokes).size = Ended.stroke.size
          /\ call.ret[1].color = Ended.stroke.color
          /\ call.ret[1].size = Ended.stroke.size

\* a stroke started with the default brush was committed with it although
\* both the color and the size of the brush were changed while it was drawn
C33_Witness ==
    /\ LocalCommit
    /\ Len(Ended.stroke.points) = 3
    /\ Last(strokes).color = DefaultBrushColor
    /\ Last(strokes).size = DefaultBrushSize
    /\ brushColor # DefaultBrushColor
    /\ brushSize # DefaultBrushSize

----------------------------------------------------------------------------
(* Controller presses that draw nothing *)

\* the press the trigger of the controller last made
LastPress(controller) == triggers[controller].press

\* C34: a controller select that lands on the shade picker, the Undo
\* button, the Clear button or a palette slot, or that happens in eraser
\* mode, starts no stroke session: it does not call startStroke and while
\* the trigger is held the controller has no session.  The release that
\* matches it calls nothing, so it commits nothing and sends nothing, and a
\* release calls endStroke only when the matching press started a session.
C34_UiPressStartsNoSession ==
    /\ \A c \in ControllerIds :
          (triggers[c].down /\ LastPress(c) # "draw") => ~isDrawing(c)
    /\ (event.name = "selectstart" /\ LastPress(event.source) # "draw")
          => event.calls # <<"startStroke">>
    /\ (event.name = "selectend" /\ LastPress(event.source) # "draw")
          => (event.calls = <<>> /\ sent = event.sent)
    /\ (event.name = "selectend" /\ event.calls = <<"endStroke">>)
          => LastPress(event.source) = "draw"

\* a press in eraser mode removed a committed stroke and its release left the
\* strokes sent so far as they were
C34_Witness ==
    /\ event.name = "selectend"
    /\ LastPress(event.source) = "eraser"
    /\ event.calls = <<>>
    /\ Len(sent) > 0
    /\ Len(strokes) = 0

----------------------------------------------------------------------------
(* The Undo button under the fingertip *)

\* C35: one continuous touch of the Undo button with the finger, the
\* fingertip staying within the interaction distance of the button over
\* consecutive frames, undoes one stroke and not one stroke per frame.
C35_OneUndoPerTouch == touch.onUndo => touch.undone <= 1

----------------------------------------------------------------------------
(* The menu above the palm *)

\* the last step was a call of checkIntersection
MenuStep == event.name = "checkIntersection"

\* C36: checkIntersection triggers the action of a button only when the menu
\* is visible and the fingertip is on a button other than the active one,
\* which then becomes the active one; while the fingertip stays on the same
\* button over consecutive calls the action fires once, and a call with the
\* menu hidden fires nothing.
C36_FiresOnEntryOnly ==
    MenuStep =>
        /\ event.calls # <<>> =>
               /\ menuCall.visible
               /\ menuCall.hovered # NoBtn
               /\ menuCall.hovered # menuCall.active
               /\ activeBtn = menuCall.hovered
        /\ (menuCall.hovered # NoBtn /\ menuCall.hovered = menuCall.active)
               => event.calls = <<>>
        /\ ~menuCall.visible => event.calls = <<>>
        /\ menuCall.fires <= 1

\* the fingertip stayed on the Undo button for a second call, after the first
\* call had undone a stroke, and the second call fired nothing
C36_Witness ==
    /\ MenuStep
    /\ menuCall.visible
    /\ menuCall.hovered = 6
    /\ menuCall.active = 6
    /\ menuCall.fires = 1
    /\ event.calls = <<>>
    /\ Len(undoneStrokes) = 1

----------------------------------------------------------------------------
(* Single and double taps of a palette slot *)

\* the tapped slot had been tapped less than 500 ms before this tap
TappedRecently ==
    /\ tap.pre.tappedAt[tap.index] # -1
    /\ tap.at - tap.pre.tappedAt[tap.index] < DOUBLE_TAP_THRESHOLD

\* the tap before this one was on the same slot, less than 500 ms before
PreviousTapSameSlotRecent ==
    /\ tap.pre.lastTappedSlot = tap.index
    /\ tap.at - tap.pre.lastTapTime < DOUBLE_TAP_THRESHOLD

\* a tap returns "double" and leaves the active slot, or returns "single" and
\* makes the tapped slot active, and records itself as the last tap
TapOutcome(double) ==
    /\ tap.ret = IF double THEN "double" ELSE "single"
    /\ activeSlotIndex = IF double THEN tap.pre.activeSlotIndex ELSE tap.index
    /\ lastTappedSlot = tap.index
    /\ lastTapTime = tap.at

\* C37 as stated: selectSlot returns "double" and leaves the active slot
\* unchanged exactly when the same slot was tapped less than 500 ms earlier;
\* otherwise it returns "single" and makes the tapped slot active; every tap
\* updates the last-tap record.
C37_DoubleIffSlotTappedRecently ==
    tap.ret # "none" => TapOutcome(TappedRecently)

\* C37 amended: selectSlot returns "double" and leaves the active slot
\* unchanged exactly when the tap immediately before it was on the same slot
\* and less than 500 ms earlier; otherwise it returns "single" and makes the
\* tapped slot active; every tap updates the last-tap record.
C37_DoubleIffPreviousTapSameSlot ==
    tap.ret # "none" => TapOutcome(PreviousTapSameSlotRecent)

\* slot 0 tapped again 498 ms after its last tap with a tap of slot 1 in
\* between: a single tap
C37_Witness ==
    /\ tap.index = 0
    /\ tap.at - tap.pre.tappedAt[0] = 498
    /\ tap.pre.lastTappedSlot = 1
    /\ tap.ret = "single"
    /\ activeSlotIndex = 0

----------------------------------------------------------------------------
(* The listeners an emission calls *)

\* the registrations of event e that stand at the end of the history l: the
\* calls of on(e, cb) with no later call of off(e, cb)
Standing(l, e) ==
    {i \in 1..Len(l) :
        /\ l[i].op = "on"
        /\ l[i].event = e
        /\ \A j \in (i + 1)..Len(l) :
               ~(l[j].op = "off" /\ l[j].event = e /\ l[j].cb = l[i].cb)}

\* their callbacks, in the order of registration
StandingCallbacks(l, e) ==
    [k \in 1..Cardinality(Standing(l, e)) |->
        l[CHOOSE i \in Standing(l, e) :
              Cardinality({j \in Standing(l, e) : j < i}) = k - 1].cb]

\* C38: emit(event, data) calls every listener registered for the event and
\* not taken off since, once per registration and in the order of
\* registration, and no listener of another event; a callback taken off with
\* off(event, cb) is not called; emit on an event without listeners calls
\* nothing; emit leaves the registrations as they are.
C38_EmitCallsStandingListeners ==
    emission.event # "" =>
        /\ emission.calls = StandingCallbacks(emission.log, emission.event)
        /\ (emission.log = log => listeners = emission.pre)

\* cb1 was registered twice and cb2 once for the event, cb2 was taken off,
\* and the emission called cb1 twice
C38_Witness ==
    /\ emission.calls = <<"cb1", "cb1">>
    /\ \E j \in 1..Len(emission.log) :
          emission.log[j] = [op |-> "off", event |-> emission.event, cb |-> "cb2"]
    /\ \E i \in 1..Len(emission.log) :
          emission.log[i] = [op |-> "on", event |-> emission.event, cb |-> "cb2"]

----------------------------------------------------------------------------
(* The cap of the particle system *)

\* C39: the ParticleSystem never holds more than maxParticles (300)
\* particles: emit adds the particles asked for up to the cap and none beyond
\* it, and update removes the particles whose lifetime has expired and no
\* other, so every particle it keeps is alive.
C39_AtMostMaxParticles ==
    /\ Len(particles) <= maxParticles
    /\ psCall.op = "emit" =>
           Len(particles) = IF psCall.preLen + psCall.count <= maxParticles
                            THEN psCall.preLen + psCall.count
                            ELSE maxParticles
    /\ psCall.op = "update" =>
           /\ Len(particles) = psCall.preLen - psCall.expired
           /\ \A i \in 1..Len(particles) :
                  particles[i].lifetime < particles[i].maxLifetime

\* an emit that found fewer than 300 particles, some of them aged by an
\* update that had removed others, and was asked for more than the cap left
\* room for
C39_Witness ==
    /\ psCall.op = "emit"
    /\ psCall.preLen < maxParticles
    /\ psCall.preLen + psCall.count > maxParticles
    /\ Len(particles) = maxParticles
    /\ psCall.updates > 0
    /\ \E i \in 1..Len(particles) : particles[i].lifetime > 0

====
